---- MODULE Spec2Model ----
(***************************************************************************)
(* A model of boopifier (terraboops/claudifier): one process per event.    *)
(* main loads the configuration, reads one event line from standard input, *)
(* derives the hook from the event, dispatches the event to the matching   *)
(* handlers (process_event, joined with join_all), and prints one line.    *)
(*                                                                         *)
(* Strings are sequences of tokens (<<"Notification">>, or                 *)
(* <<"x_", "{{env.", "FOO", "}}", "_y">>), so that searching and replacing *)
(* inside a string is computed and not assumed.  JSON values are records   *)
(* tagged by their type.                                                   *)
(***************************************************************************)
EXTENDS Integers, Sequences, FiniteSets, TLC

(***************************************************************************)
(* Bounds of the model.                                                    *)
(***************************************************************************)
\* the longest handler list of a configuration file
MaxHandlers == 2
\* the longest outcome list handed to generate_response on its own
MaxOutcomes == 3
\* the longest all or any list of a Complex rule
MaxRuleList == 2
\* the longest overrides list of a configuration
MaxOverrides == 2
\* the most pieces (texts, placeholders) a configured string is made of
MaxPieces == 3

(***************************************************************************)
(* Option<T>, serde_json::Value                                            *)
(***************************************************************************)
None == [some |-> FALSE]
Some(x) == [some |-> TRUE, v |-> x]

JNull == [t |-> "null"]
JBool(b) == [t |-> "bool", v |-> b]
JNum(n) == [t |-> "number", v |-> n]
JStr(s) == [t |-> "string", v |-> s]
JArr(q) == [t |-> "array", v |-> q]
JObj(f) == [t |-> "object", v |-> f]

\* a one-token string
S(w) == <<w>>
\* the empty JSON object, json!({})
EmptyObject == JObj(<<>>)

\* Value::as_str
as_str(val) == IF val.t = "string" THEN Some(val.v) ELSE None
\* Value::as_array
as_array(val) == IF val.t = "array" THEN Some(val.v) ELSE None
\* Value::as_object
as_object(val) == IF val.t = "object" THEN Some(val.v) ELSE None

\* the elements of a sequence
Range(q) == {q[i] : i \in 1..Len(q)}

\* PartialEq of serde_json::Value: same type, same content, element by element
RECURSIVE JsonEq(_, _)
JsonEq(a, b) ==
    IF a.t # b.t THEN FALSE
    ELSE IF a.t = "null" THEN TRUE
    ELSE IF a.t = "array" THEN
        /\ Len(a.v) = Len(b.v)
        /\ \A i \in 1..Len(a.v) : JsonEq(a.v[i], b.v[i])
    ELSE IF a.t = "object" THEN
        /\ DOMAIN a.v = DOMAIN b.v
        /\ \A k \in DOMAIN a.v : JsonEq(a.v[k], b.v[k])
    ELSE a.v = b.v

\* an object key: the key split on '.', so K("tool") and <<"tool", "name">>
K(w) == <<w>>
\* str::contains('.') on a key
contains_dot(key) == Len(key) > 1
\* serde_json::Map::get / HashMap::get
get(map, key) == IF key \in DOMAIN map THEN Some(map[key]) ELSE None

(***************************************************************************)
(* src/event.rs                                                            *)
(***************************************************************************)
\* Event::get_str: the field, when it is there and is a string
get_str(event, w) ==
    IF K(w) \in DOMAIN event.data THEN as_str(event.data[K(w)]) ELSE None

\* the loop of get_nested_str: Value::get(part) over the parts of the path
RECURSIVE walk(_, _)
walk(current, parts) ==
    IF parts = <<>> THEN Some(current)
    ELSE IF current.t = "object" /\ K(Head(parts)) \in DOMAIN current.v
         THEN walk(current.v[K(Head(parts))], Tail(parts))
         ELSE None

\* Event::get_nested_str: the value at the dotted path, when it is a string
get_nested_str(event, path) ==
    LET found == walk(JObj(event.data), path)
    IN  IF found.some THEN as_str(found.v) ELSE None

(***************************************************************************)
(* The regex crate, on token strings: a pattern is a sequence of literal   *)
(* tokens, ".*", a leading "^" and a trailing "$"; "(" is an unclosed      *)
(* group, which Regex::new rejects.                                        *)
(***************************************************************************)
regex_new_ok(e) == \A i \in 1..Len(e) : e[i] # "("

RECURSIVE match_here(_, _)
match_here(p, a) ==
    IF p = <<>> THEN TRUE
    ELSE IF Head(p) = "$" THEN a = <<>> /\ match_here(Tail(p), a)
    ELSE IF Head(p) = ".*" THEN
        \E k \in 0..Len(a) : match_here(Tail(p), SubSeq(a, k + 1, Len(a)))
    ELSE a # <<>> /\ Head(a) = Head(p) /\ match_here(Tail(p), Tail(a))

\* Regex::is_match: an unanchored search
is_match(e, a) ==
    IF e # <<>> /\ Head(e) = "^" THEN match_here(Tail(e), a)
    ELSE \E k \in 0..Len(a) : match_here(e, SubSeq(a, k + 1, Len(a)))

(***************************************************************************)
(* src/matcher.rs                                                          *)
(***************************************************************************)
\* a comparison that falls back to equality when the pattern does not compile
RECURSIVE values_match_exact_fallback(_, _, _)
values_match_exact_fallback(actual, expected, match_type) ==
    IF actual.t = "string" /\ expected.t = "string" THEN
        IF match_type = "Exact" THEN actual.v = expected.v
        ELSE IF regex_new_ok(expected.v) THEN is_match(expected.v, actual.v)
        ELSE actual.v = expected.v
    ELSE IF actual.t = "number" /\ expected.t = "number" THEN actual.v = expected.v
    ELSE IF actual.t = "bool" /\ expected.t = "bool" THEN actual.v = expected.v
    ELSE IF actual.t = "array" /\ expected.t = "array" THEN
        \A i \in 1..Len(expected.v) :
            \E j \in 1..Len(actual.v) : JsonEq(actual.v[j], expected.v[i])
    ELSE IF actual.t = "object" /\ expected.t = "object" THEN
        \A k \in DOMAIN expected.v :
            /\ k \in DOMAIN actual.v
            /\ values_match_exact_fallback(actual.v[k], expected.v[k], match_type)
    ELSE FALSE

\* a comparison that takes two arrays to match when they are equal
RECURSIVE values_match_whole_array(_, _, _)
values_match_whole_array(actual, expected, match_type) ==
    IF actual.t = "string" /\ expected.t = "string" THEN
        IF match_type = "Exact" THEN actual.v = expected.v
        ELSE IF regex_new_ok(expected.v) THEN is_match(expected.v, actual.v)
        ELSE FALSE
    ELSE IF actual.t = "number" /\ expected.t = "number" THEN actual.v = expected.v
    ELSE IF actual.t = "bool" /\ expected.t = "bool" THEN actual.v = expected.v
    ELSE IF actual.t = "array" /\ expected.t = "array" THEN JsonEq(actual, expected)
    ELSE IF actual.t = "object" /\ expected.t = "object" THEN
        \A k \in DOMAIN expected.v :
            /\ k \in DOMAIN actual.v
            /\ values_match_whole_array(actual.v[k], expected.v[k], match_type)
    ELSE FALSE

RECURSIVE values_match(_, _, _)
values_match(actual, expected, match_type) ==
    IF actual.t = "string" /\ expected.t = "string" THEN
        IF match_type = "Exact" THEN actual.v = expected.v
        ELSE IF regex_new_ok(expected.v) THEN is_match(expected.v, actual.v)
        ELSE FALSE
    ELSE IF actual.t = "number" /\ expected.t = "number" THEN actual.v = expected.v
    ELSE IF actual.t = "bool" /\ expected.t = "bool" THEN actual.v = expected.v
    ELSE IF actual.t = "array" /\ expected.t = "array" THEN
        \A i \in 1..Len(expected.v) :
            \E j \in 1..Len(actual.v) : JsonEq(actual.v[j], expected.v[i])
    ELSE IF actual.t = "object" /\ expected.t = "object" THEN
        \A k \in DOMAIN expected.v :
            /\ k \in DOMAIN actual.v
            /\ values_match(actual.v[k], expected.v[k], match_type)
    ELSE FALSE

\* the value a rule key names in the event
actual_value(event, key) ==
    IF contains_dot(key)
    THEN LET s == get_nested_str(event, key)
         IN  IF s.some THEN Some(JStr(s.v)) ELSE None
    ELSE get(event.data, key)

matches_simple(event, rules, match_type) ==
    \A key \in DOMAIN rules :
        LET actual == actual_value(event, key)
        IN  actual.some /\ values_match(actual.v, rules[key], match_type)

\* a Complex evaluator without the guard on three absent components
matches_complex_unguarded(event, all, any, not, match_type) ==
    /\ all.some =>
        \A i \in 1..Len(all.v) : matches_simple(event, all.v[i], match_type)
    /\ any.some =>
        \E i \in 1..Len(any.v) : matches_simple(event, any.v[i], match_type)
    /\ not.some => ~matches_simple(event, not.v, match_type)

\* a Complex evaluator that lets an empty any list pass
matches_complex_empty_any(event, all, any, not, match_type) ==
    IF ~all.some /\ ~any.some /\ ~not.some THEN FALSE
    ELSE
        /\ all.some =>
            \A i \in 1..Len(all.v) : matches_simple(event, all.v[i], match_type)
        /\ (any.some /\ any.v # <<>>) =>
            \E i \in 1..Len(any.v) : matches_simple(event, any.v[i], match_type)
        /\ not.some => ~matches_simple(event, not.v, match_type)

\* a Complex evaluator for which an empty all list holds of no event
matches_complex_nonempty_all(event, all, any, not, match_type) ==
    IF ~all.some /\ ~any.some /\ ~not.some THEN FALSE
    ELSE
        /\ all.some =>
            /\ all.v # <<>>
            /\ \A i \in 1..Len(all.v) : matches_simple(event, all.v[i], match_type)
        /\ any.some =>
            \E i \in 1..Len(any.v) : matches_simple(event, any.v[i], match_type)
        /\ not.some => ~matches_simple(event, not.v, match_type)

matches_complex(event, all, any, not, match_type) ==
    IF ~all.some /\ ~any.some /\ ~not.some THEN FALSE
    ELSE
        /\ all.some =>
            \A i \in 1..Len(all.v) : matches_simple(event, all.v[i], match_type)
        /\ any.some =>
            \E i \in 1..Len(any.v) : matches_simple(event, any.v[i], match_type)
        /\ not.some => ~matches_simple(event, not.v, match_type)

\* arr.iter().filter_map(|v| v.as_object()...).collect(): the objects of a list
RECURSIVE objects_of(_)
objects_of(arr) ==
    IF arr = <<>> THEN <<>>
    ELSE IF Head(arr).t = "object" THEN <<Head(arr).v>> \o objects_of(Tail(arr))
    ELSE objects_of(Tail(arr))

\* a component that takes a value that is no array for the empty list
list_component_lenient(simple_rules, key) ==
    LET val == get(simple_rules, key)
    IN  IF ~val.some THEN None
        ELSE IF val.v.t = "array" THEN Some(objects_of(val.v.v)) ELSE Some(<<>>)

\* simple_rules.get(key).and_then(as_array).map(the objects of the list)
list_component(simple_rules, key) ==
    LET val == get(simple_rules, key)
    IN  IF val.some /\ val.v.t = "array" THEN Some(objects_of(val.v.v)) ELSE None

\* simple_rules.get("not").and_then(as_object)
object_component(simple_rules, key) ==
    LET val == get(simple_rules, key)
    IN  IF val.some /\ val.v.t = "object" THEN Some(val.v.v) ELSE None

\* MatchRules: None, Simple(map) or Complex{all, any, not}
NoRules == [k |-> "None"]
Simple(map) == [k |-> "Simple", rules |-> map]
Complex(all, any, not) == [k |-> "Complex", all |-> all, any |-> any, not |-> not]

\* a matcher for which a handler without a rule fires on no event
matches_requiring_rules(event, rules, match_type) ==
    IF rules.k = "None" THEN FALSE
    ELSE IF rules.k = "Simple" THEN
        IF K("any") \in DOMAIN rules.rules \/ K("all") \in DOMAIN rules.rules
           \/ K("not") \in DOMAIN rules.rules
        THEN matches_complex(event,
                             list_component(rules.rules, K("all")),
                             list_component(rules.rules, K("any")),
                             object_component(rules.rules, K("not")),
                             match_type)
        ELSE matches_simple(event, rules.rules, match_type)
    ELSE matches_complex(event, rules.all, rules.any, rules.not, match_type)

\* a matcher that takes every Simple map for a map of event fields
matches_without_reinterpretation(event, rules, match_type) ==
    IF rules.k = "None" THEN TRUE
    ELSE IF rules.k = "Simple" THEN matches_simple(event, rules.rules, match_type)
    ELSE matches_complex(event, rules.all, rules.any, rules.not, match_type)

\* a matcher that also holds the event to the fields beside all, any, not
matches_constraining_rest(event, rules, match_type) ==
    IF rules.k = "None" THEN TRUE
    ELSE IF rules.k = "Simple" THEN
        IF K("any") \in DOMAIN rules.rules \/ K("all") \in DOMAIN rules.rules
           \/ K("not") \in DOMAIN rules.rules
        THEN /\ matches_complex(event,
                                list_component(rules.rules, K("all")),
                                list_component(rules.rules, K("any")),
                                object_component(rules.rules, K("not")),
                                match_type)
             /\ matches_simple(event,
                               [key \in DOMAIN rules.rules
                                           \ {K("all"), K("any"), K("not")} |->
                                   rules.rules[key]],
                               match_type)
        ELSE matches_simple(event, rules.rules, match_type)
    ELSE matches_complex(event, rules.all, rules.any, rules.not, match_type)

matches(event, rules, match_type) ==
    IF rules.k = "None" THEN TRUE
    ELSE IF rules.k = "Simple" THEN
        IF K("any") \in DOMAIN rules.rules \/ K("all") \in DOMAIN rules.rules
           \/ K("not") \in DOMAIN rules.rules
        THEN matches_complex(event,
                             list_component(rules.rules, K("all")),
                             list_component(rules.rules, K("any")),
                             object_component(rules.rules, K("not")),
                             match_type)
        ELSE matches_simple(event, rules.rules, match_type)
    ELSE matches_complex(event, rules.all, rules.any, rules.not, match_type)


(***************************************************************************)
(* src/hooks: HandlerOutcome, Hook, hook_from_event, generate_response     *)
(***************************************************************************)
Success == [kind |-> "Success"]
\* HandlerOutcome::Error(message); the message is the list of its parts
Error(msg) == [kind |-> "Error", msg |-> msg]
\* HandlerOutcome::Interactive(InteractiveResponse{decision, reason})
Interactive(decision, reason) ==
    [kind |-> "Interactive", decision |-> decision, reason |-> reason]

PermissionDecisions == {"Allow", "Deny", "Ask"}

\* the event names hook_from_event knows, other than PreToolUse
PassiveNames ==
    {S("Stop"), S("SubagentStop"), S("Notification"), S("PostToolUse"),
     S("PermissionRequest"), S("UserPromptSubmit"), S("SessionStart"),
     S("SessionEnd"), S("PreCompact")}

\* PreToolUseHook::from_event
PreToolUseHook_from_event(event) ==
    LET tool_name == get_str(event, "tool_name")
    IN  [kind |-> "PreToolUse",
         tool_name |-> IF tool_name.some THEN tool_name.v ELSE S("unknown")]

\* a hook_from_event without the bail: any other name gets a passive hook
hook_from_event_lenient(event) ==
    LET found == get_str(event, "hook_event_name")
        hook_event_name == IF found.some THEN found.v ELSE S("unknown")
    IN  IF hook_event_name = S("PreToolUse")
        THEN [ok |-> TRUE, hook |-> PreToolUseHook_from_event(event)]
        ELSE [ok |-> TRUE, hook |-> [kind |-> "Passive", hook_name |-> hook_event_name]]

\* hook_from_event: Ok(hook), or Err for a name that is none of the ten
hook_from_event(event) ==
    LET found == get_str(event, "hook_event_name")
        hook_event_name == IF found.some THEN found.v ELSE S("unknown")
    IN  IF hook_event_name = S("PreToolUse")
        THEN [ok |-> TRUE, hook |-> PreToolUseHook_from_event(event)]
        ELSE IF hook_event_name \in PassiveNames
        THEN [ok |-> TRUE, hook |-> [kind |-> "Passive", hook_name |-> hook_event_name]]
        ELSE [ok |-> FALSE, err |-> <<"Unknown hook type: ", hook_event_name>>]

\* a search that keeps the last Interactive outcome instead of the first
RECURSIVE find_last_interactive(_)
find_last_interactive(outcomes) ==
    IF outcomes = <<>> THEN None
    ELSE IF outcomes[Len(outcomes)].kind = "Interactive"
         THEN Some(outcomes[Len(outcomes)])
    ELSE find_last_interactive(SubSeq(outcomes, 1, Len(outcomes) - 1))

\* outcomes.iter().find_map(Interactive): the first Interactive outcome
RECURSIVE find_interactive(_)
find_interactive(outcomes) ==
    IF outcomes = <<>> THEN None
    ELSE IF Head(outcomes).kind = "Interactive" THEN Some(Head(outcomes))
    ELSE find_interactive(Tail(outcomes))

\* the match on response.decision
decision_str(decision) ==
    CASE decision = "Allow" -> S("allow")
      [] decision = "Deny" -> S("deny")
      [] decision = "Ask" -> S("ask")

\* a generate_response that denies when a handler failed and none decided
PreToolUse_generate_response_failing_closed(outcomes) ==
    LET failed == \E k \in 1..Len(outcomes) : outcomes[k].kind = "Error"
        decided == \E k \in 1..Len(outcomes) : outcomes[k].kind = "Interactive"
        output == (K("hookEventName") :> JStr(S("PreToolUse")))
                  @@ (K("permissionDecision") :>
                          JStr(IF failed /\ ~decided THEN S("deny") ELSE S("allow")))
    IN  JObj(K("hookSpecificOutput") :> JObj(output))

\* PreToolUseHook::generate_response
PreToolUse_generate_response(outcomes) ==
    LET interactive == find_interactive(outcomes)
        decision == IF interactive.some THEN decision_str(interactive.v.decision)
                    ELSE S("allow")
        reason == IF interactive.some THEN interactive.v.reason ELSE None
        output == (K("hookEventName") :> JStr(S("PreToolUse")))
                  @@ (K("permissionDecision") :> JStr(decision))
    IN  JObj(K("hookSpecificOutput") :>
             JObj(IF reason.some
                  THEN output @@ (K("permissionDecisionReason") :> JStr(reason.v))
                  ELSE output))

\* a passive hook that blocks when a handler asked to deny
Passive_generate_response_blocking(outcomes) ==
    IF \E k \in 1..Len(outcomes) :
           outcomes[k].kind = "Interactive" /\ outcomes[k].decision = "Deny"
    THEN JObj(K("decision") :> JStr(S("block")))
    ELSE EmptyObject

\* generate_response of the nine passive hooks
Passive_generate_response(outcomes) == EmptyObject

\* Hook::generate_response
generate_response(hook, outcomes) ==
    IF hook.kind = "PreToolUse" THEN PreToolUse_generate_response(outcomes)
    ELSE Passive_generate_response(outcomes)


(***************************************************************************)
(* src/config.rs                                                           *)
(***************************************************************************)
VARIABLES
    cli,        \* Cli: [config: Option<path>, list_handlers: bool]
    env,        \* the environment: variable name -> value
    fs,         \* the file system: path -> [readable, text, parsed]
    stdin       \* the line read_line yields, or the read error

\* str::find of one token from position `from` on: its index, or 0
RECURSIVE find_from(_, _, _)
find_from(str, from, tok) ==
    IF from > Len(str) THEN 0
    ELSE IF str[from] = tok THEN from
    ELSE find_from(str, from + 1, tok)

\* whether `pat` is a prefix of `str`
starts_with(str, pat) ==
    Len(pat) <= Len(str) /\ SubSeq(str, 1, Len(pat)) = pat

\* str::replace: every non-overlapping occurrence, left to right
RECURSIVE replace(_, _, _)
replace(str, pat, by) ==
    IF str = <<>> THEN <<>>
    ELSE IF starts_with(str, pat)
         THEN by \o replace(SubSeq(str, Len(pat) + 1, Len(str)), pat, by)
         ELSE <<Head(str)>> \o replace(Tail(str), pat, by)

Whitespace == {" ", "\n"}

\* str::trim: the whitespace at both ends removed
RECURSIVE trim_start(_)
trim_start(str) ==
    IF str # <<>> /\ Head(str) \in Whitespace THEN trim_start(Tail(str)) ELSE str

RECURSIVE trim_end(_)
trim_end(str) ==
    IF str # <<>> /\ str[Len(str)] \in Whitespace
    THEN trim_end(SubSeq(str, 1, Len(str) - 1)) ELSE str

trim(str) == trim_end(trim_start(str))

\* shellexpand::tilde: a leading ~ becomes the home directory
tilde(path) ==
    IF path # <<>> /\ Head(path) = "~" /\ S("HOME") \in DOMAIN env
    THEN env[S("HOME")] \o Tail(path) ELSE path

\* std::env::var
env_var(name) == IF name \in DOMAIN env THEN Some(env[name]) ELSE None

\* fs::read_to_string
read_to_string(path) ==
    IF path \in DOMAIN fs /\ fs[path].readable THEN Some(fs[path].text) ELSE None

\* an {{env.NAME}} step that goes on until no placeholder is left to resolve
RECURSIVE resolve_env_every(_)
resolve_env_every(result) ==
    LET start == find_from(result, 1, "{{env.")
        end == IF start = 0 THEN 0 ELSE find_from(result, start, "}}")
        var_name == SubSeq(result, start + 1, end - 1)
        value == env_var(var_name)
    IN  IF start = 0 \/ end = 0 THEN [ok |-> TRUE, v |-> result]
        ELSE IF ~value.some
        THEN [ok |-> FALSE, err |-> <<"Environment variable not found: ">> \o var_name]
        ELSE resolve_env_every(
                 replace(result, <<"{{env.">> \o var_name \o <<"}}">>, value.v))

\* the {{env.NAME}} step of resolve_secret_string
resolve_env(result) ==
    LET start == find_from(result, 1, "{{env.")
        end == IF start = 0 THEN 0 ELSE find_from(result, start, "}}")
        var_name == SubSeq(result, start + 1, end - 1)
        value == env_var(var_name)
    IN  IF start = 0 \/ end = 0 THEN [ok |-> TRUE, v |-> result]
        ELSE IF ~value.some
        THEN [ok |-> FALSE, err |-> <<"Environment variable not found: ">> \o var_name]
        ELSE [ok |-> TRUE,
              v |-> replace(result, <<"{{env.">> \o var_name \o <<"}}">>, value.v)]

\* the {{file.PATH}} step of resolve_secret_string
resolve_file(result) ==
    LET start == find_from(result, 1, "{{file.")
        end == IF start = 0 THEN 0 ELSE find_from(result, start, "}}")
        file_path == SubSeq(result, start + 1, end - 1)
        content == read_to_string(tilde(file_path))
    IN  IF start = 0 \/ end = 0 THEN [ok |-> TRUE, v |-> result]
        ELSE IF ~content.some
        THEN [ok |-> FALSE, err |-> <<"Failed to read file ">> \o file_path]
        ELSE [ok |-> TRUE,
              v |-> replace(result, <<"{{file.">> \o file_path \o <<"}}">>,
                            trim(content.v))]

\* a resolve_secret_string that reads the files before the environment
resolve_secret_string_file_first(str) ==
    LET after_file == resolve_file(str)
    IN  IF ~after_file.ok THEN after_file ELSE resolve_env(after_file.v)

\* Config::resolve_secret_string
resolve_secret_string(str) ==
    LET after_env == resolve_env(str)
    IN  IF ~after_env.ok THEN after_env ELSE resolve_file(after_env.v)

\* the loop over handler.config.values_mut(): whether every string resolves
handler_resolves(handler) ==
    \A k \in DOMAIN handler.config :
        handler.config[k].t = "string" => resolve_secret_string(handler.config[k].v).ok

\* the loop over handler.config.values_mut(): the string values rewritten
resolve_handler(handler) ==
    [handler EXCEPT !.config =
        [k \in DOMAIN handler.config |->
            IF handler.config[k].t = "string"
            THEN JStr(resolve_secret_string(handler.config[k].v).v)
            ELSE handler.config[k]]]

resolve_handlers(handlers) ==
    [i \in 1..Len(handlers) |-> resolve_handler(handlers[i])]

\* a resolve_secrets that goes through the base handlers only
resolve_secrets_base_only(config) ==
    IF \A i \in 1..Len(config.handlers) : handler_resolves(config.handlers[i])
    THEN [ok |-> TRUE,
          v |-> [handlers |-> resolve_handlers(config.handlers),
                 overrides |-> config.overrides]]
    ELSE [ok |-> FALSE, err |-> S("Invalid configuration: secret")]

\* Config::resolve_secrets: the base handlers, then every override's handlers
resolve_secrets(config) ==
    IF /\ \A i \in 1..Len(config.handlers) : handler_resolves(config.handlers[i])
       /\ config.overrides.some =>
            \A o \in 1..Len(config.overrides.v) :
                \A i \in 1..Len(config.overrides.v[o].handlers) :
                    handler_resolves(config.overrides.v[o].handlers[i])
    THEN [ok |-> TRUE,
          v |-> [handlers |-> resolve_handlers(config.handlers),
                 overrides |->
                    IF config.overrides.some
                    THEN Some([o \in 1..Len(config.overrides.v) |->
                              [config.overrides.v[o] EXCEPT
                                 !.handlers = resolve_handlers(@)]])
                    ELSE None]]
    ELSE [ok |-> FALSE, err |-> S("Invalid configuration: secret")]

\* Config::from_json: the parse serde_json makes of the text
from_json(file) ==
    IF file.parsed.some THEN [ok |-> TRUE, v |-> file.parsed.v]
    ELSE [ok |-> FALSE, err |-> S("Invalid configuration: Invalid JSON")]

\* a load that keeps the configuration as parsed when a secret does not resolve
load_keeping_placeholders(path) ==
    IF ~(path \in DOMAIN fs /\ fs[path].readable)
    THEN [ok |-> FALSE, err |-> S("Invalid configuration: Failed to read config file")]
    ELSE LET config == from_json(fs[path])
         IN  IF ~config.ok THEN config
             ELSE IF resolve_secrets(config.v).ok THEN resolve_secrets(config.v)
             ELSE config

\* Config::load
load(path) ==
    IF ~(path \in DOMAIN fs /\ fs[path].readable)
    THEN [ok |-> FALSE, err |-> S("Invalid configuration: Failed to read config file")]
    ELSE LET config == from_json(fs[path])
         IN  IF ~config.ok THEN config ELSE resolve_secrets(config.v)

\* glob::Pattern::new: "[" opens a character class that is never closed
pattern_new_ok(pattern) == \A i \in 1..Len(pattern) : pattern[i] # "["

\* glob::Pattern::matches on paths split at "/": "*" is one or more components
RECURSIVE glob_matches(_, _)
glob_matches(pattern, path) ==
    IF pattern = <<>> THEN path = <<>>
    ELSE IF Head(pattern) = "*" THEN
        \E k \in 1..Len(path) :
            glob_matches(Tail(pattern), SubSeq(path, k + 1, Len(path)))
    ELSE /\ path # <<>>
         /\ Head(path) = Head(pattern)
         /\ glob_matches(Tail(pattern), Tail(path))

\* the test of the loop of apply_overrides
override_matches(override_config, project_path) ==
    /\ pattern_new_ok(override_config.path_pattern)
    /\ glob_matches(override_config.path_pattern, project_path)

\* a loop that keeps the first matching override
RECURSIVE scan_overrides_first(_, _, _, _)
scan_overrides_first(overrides, project_path, i, last_match) ==
    IF i > Len(overrides) THEN last_match
    ELSE scan_overrides_first(overrides, project_path, i + 1,
                              IF override_matches(overrides[i], project_path)
                                 /\ last_match = 0
                              THEN i ELSE last_match)

\* the loop of apply_overrides from override i on: the index of the last
\* matching override, last_match (0 while none has matched)
RECURSIVE scan_overrides(_, _, _, _)
scan_overrides(overrides, project_path, i, last_match) ==
    IF i > Len(overrides) THEN last_match
    ELSE scan_overrides(overrides, project_path, i + 1,
                        IF override_matches(overrides[i], project_path)
                        THEN i ELSE last_match)

\* an apply_overrides that adds the override's handlers to the base list
apply_overrides_merging(config, project_path) ==
    IF ~config.overrides.some THEN config
    ELSE LET m == scan_overrides(config.overrides.v, project_path, 1, 0)
         IN  IF m = 0 THEN config
             ELSE [config EXCEPT !.handlers = @ \o config.overrides.v[m].handlers]

\* Config::apply_overrides
apply_overrides(config, project_path) ==
    IF ~config.overrides.some THEN config
    ELSE LET m == scan_overrides(config.overrides.v, project_path, 1, 0)
         IN  IF m = 0 THEN config
             ELSE [config EXCEPT !.handlers = config.overrides.v[m].handlers]


(***************************************************************************)
(* src/handlers: the registry, and what a handler's handle does before and *)
(* at its I/O                                                              *)
(***************************************************************************)
\* HandlerRegistry::new
RegisteredTypes == {"desktop", "sound", "signal", "webhook", "email"}

\* HandlerRegistry::get(handler_type).is_some()
registry_has(handler_type) == handler_type \in RegisteredTypes

\* config.get(key).and_then(|v| v.as_str()).is_some()
has_str(config, w) == K(w) \in DOMAIN config /\ config[K(w)].t = "string"

\* get_sound_file(config).is_ok()
sound_file_ok(config) ==
    \/ has_str(config, "file")
    \/ /\ K("files") \in DOMAIN config
       /\ config[K("files")].t = "array"
       /\ \E i \in 1..Len(config[K("files")].v) : config[K("files")].v[i].t = "string"

\* the payload types build_payload knows
webhook_type_ok(config) ==
    has_str(config, "type") => config[K("type")].v \in {S("slack"), S("discord"), S("json")}

\* whether handle returns Err(InvalidConfig) before it reaches its I/O
invalid_config(handler_type, config) ==
    CASE handler_type = "webhook" -> ~has_str(config, "url") \/ ~webhook_type_ok(config)
      [] handler_type = "signal" -> ~has_str(config, "recipient")
      [] handler_type = "email" ->
            ~has_str(config, "to") \/ ~has_str(config, "from")
            \/ ~has_str(config, "smtp_server")
      [] handler_type = "sound" -> ~sound_file_ok(config)
      [] OTHER -> FALSE

\* whether the I/O of handle is a call that returns only when it is over
\* (Notification::show, the sleep loop of play_sound, SmtpTransport::send)
\* and not an .await that suspends the future (reqwest send, Command::output)
blocking_io(handler_type) == handler_type \in {"desktop", "sound", "email"}

\* the Display of the NotificationError the I/O of each handler fails with
io_error(handler_type) ==
    CASE handler_type = "webhook" -> "Network request failed"
      [] handler_type = "signal" -> "Handler error"
      [] handler_type = "email" -> "Email error"
      [] handler_type = "sound" -> "Audio playback error"
      [] OTHER -> "Failed to send notification"

(***************************************************************************)
(* src/lib.rs: process_event                                               *)
(***************************************************************************)
VARIABLES
    pc,         \* where main is
    config,     \* Option<Config>: the loaded configuration
    event,      \* Option<Event>
    hook,       \* Option<Hook>
    evaluated,  \* the indices of the handlers whose rule was evaluated
    futs,       \* handler_futures: [idx, name, handler_type, config, st, out]
    order,      \* the futures' slots in the order they completed
    outcomes,   \* Option<Vec<HandlerOutcome>>: what process_event returned
    stdout,     \* the lines printed
    exit_code   \* Option: the exit status, once the process has exited

vars == <<cli, env, fs, stdin, pc, config, event, hook, evaluated, futs, order,
          outcomes, stdout, exit_code>>

\* an outcome whose Error message leaves the handler's name out
handler_outcome_unnamed(name, result) ==
    IF result = "Ok" THEN Success ELSE Error(<<result>>)

\* a future whose failure comes back as a decision to deny
handler_outcome_denying(name, result) ==
    IF result = "Ok" THEN Success ELSE Interactive("Deny", Some(<<name, ": ", result>>))

\* the outcome of the future of handler `name`: the match on handle's result
handler_outcome(name, result) ==
    IF result = "Ok" THEN Success ELSE Error(<<name, ": ", result>>)

\* the outcome returned for a type the registry does not know
unknown_type_outcome(handler_config) ==
    Error(<<handler_config.name, ": Unknown handler type: ", handler_config.handler_type>>)

\* the future pushed for handler i
new_future(handlers, i) ==
    [idx |-> i, name |-> handlers[i].name, handler_type |-> handlers[i].handler_type,
     config |-> handlers[i].config, st |-> "created", out |-> None]

\* the loop of process_event from handler i on: seen are the handlers whose rule
\* was evaluated, futures the futures pushed so far
RECURSIVE collect(_, _, _, _, _)
collect(handlers, ev, i, seen, futures) ==
    IF i > Len(handlers) THEN [early |-> FALSE, seen |-> seen, futures |-> futures]
    ELSE IF ~matches(ev, handlers[i].match_rules, handlers[i].match_type)
    THEN collect(handlers, ev, i + 1, Append(seen, i), futures)
    ELSE IF ~registry_has(handlers[i].handler_type)
    THEN [early |-> TRUE, seen |-> Append(seen, i), futures |-> futures,
          outcomes |-> <<unknown_type_outcome(handlers[i])>>]
    ELSE collect(handlers, ev, i + 1, Append(seen, i),
                 Append(futures, new_future(handlers, i)))

\* a join that is ready as soon as one future has its output
join_ready_first(futures) ==
    futures = <<>> \/ \E i \in 1..Len(futures) : futures[i].st = "done"

\* whether the join_all future is ready: every future has its output
join_ready(futures) == \A i \in 1..Len(futures) : futures[i].st = "done"

\* the slots of the completed futures, in slot order
RECURSIVE done_slots(_, _)
done_slots(futures, i) ==
    IF i > Len(futures) THEN <<>>
    ELSE IF futures[i].st = "done" THEN <<i>> \o done_slots(futures, i + 1)
    ELSE done_slots(futures, i + 1)

\* a join that yields the outputs in the order the futures completed
join_all_output_by_completion(futures, completed) ==
    [k \in 1..Len(completed) |-> futures[completed[k]].out.v]

\* the output of join_all: the outputs of the futures, in the order of the list
join_all_output(futures, completed) ==
    LET slots == done_slots(futures, 1)
    IN  [k \in 1..Len(slots) |-> futures[slots[k]].out.v]

\* whether the thread that polls the futures is inside a blocking call
thread_busy == \E i \in 1..Len(futs) : futs[i].st = "io_blocking"


(***************************************************************************)
(* src/main.rs                                                             *)
(***************************************************************************)
\* a line of standard output: the compact JSON text of a value, or plain text
JsonLine(val) == [json |-> TRUE, v |-> val]
TextLine(str) == [json |-> FALSE, v |-> str]

\* an output_hook_error that prints nothing
output_hook_error_silent(error_message) == <<>>

\* output_hook_error: the lines it prints
output_hook_error(error_message) ==
    <<JsonLine(JObj((K("continue") :> JBool(TRUE))
                    @@ (K("systemMessage") :>
                            JStr(<<"Boopifier warning: ">> \o error_message))))>>

\* PathBuf::from(project_dir).join(".claude/boopifier.json")
project_config_path(project_dir) == project_dir \o <<".claude", "boopifier.json">>

\* resolve_config_path
resolve_config_path ==
    LET project_dir == env_var(S("CLAUDE_PROJECT_DIR"))
        home == env_var(S("HOME"))
    IN  IF project_dir.some /\ project_config_path(project_dir.v) \in DOMAIN fs
        THEN project_config_path(project_dir.v)
        ELSE (IF home.some THEN home.v ELSE S(".")) \o <<".claude", "boopifier.json">>

\* the config_path of main
config_path == IF cli.config.some THEN cli.config.v ELSE resolve_config_path

\* Event::from_json on the line read: serde's parse, which must be an object
Event_from_json(line) ==
    IF line.parsed.some /\ line.parsed.v.t = "object"
    THEN [ok |-> TRUE, v |-> [data |-> line.parsed.v.v]]
    ELSE [ok |-> FALSE, err |-> S("Failed to parse event JSON")]

\* process::exit(0), or the return from main
Exit(lines) ==
    /\ stdout' = stdout \o lines
    /\ pc' = "exited"
    /\ exit_code' = Some(0)

\* --list-handlers: the header and one line per registered type, in the
\* order the registry's HashMap yields them
ListHandlers ==
    /\ pc = "start"
    /\ cli.list_handlers
    /\ \E types \in [1..Cardinality(RegisteredTypes) -> RegisteredTypes] :
          /\ Range(types) = RegisteredTypes
          /\ Exit(<<TextLine(S("Available notification handlers:"))>>
                  \o [i \in DOMAIN types |-> TextLine(<<"  - ", types[i]>>)])
    /\ UNCHANGED <<cli, env, fs, stdin, config, event, hook, evaluated, futs,
                   order, outcomes>>

\* Config::load(&config_path) and its two arms
LoadConfig ==
    /\ pc = "start"
    /\ ~cli.list_handlers
    /\ LET loaded == load(config_path)
       IN  \/ /\ loaded.ok
              /\ config' = Some(loaded.v)
              /\ pc' = "loaded"
              /\ UNCHANGED <<stdout, exit_code>>
           \/ /\ ~loaded.ok
              /\ Exit(output_hook_error(<<"Failed to load config: ">> \o loaded.err))
              /\ UNCHANGED config
    /\ UNCHANGED <<cli, env, fs, stdin, event, hook, evaluated, futs, order, outcomes>>

\* the if let Ok(project_dir) = std::env::var("CLAUDE_PROJECT_DIR") block
ApplyOverrides ==
    /\ pc = "loaded"
    /\ LET project_dir == env_var(S("CLAUDE_PROJECT_DIR"))
       IN  \/ /\ project_dir.some
              /\ project_config_path(project_dir.v) \notin DOMAIN fs
              /\ config' = Some(apply_overrides(config.v, project_dir.v))
           \/ /\ ~(project_dir.some
                   /\ project_config_path(project_dir.v) \notin DOMAIN fs)
              /\ UNCHANGED config
    /\ pc' = "read"
    /\ UNCHANGED <<cli, env, fs, stdin, event, hook, evaluated, futs, order,
                   outcomes, stdout, exit_code>>

\* a test that takes only the line without any character for blank
is_empty_line(line) == line.text = <<>>

\* event_json.trim().is_empty()
is_blank(line) == trim(line.text) = <<>>

\* reader.read_line(&mut event_json) and the test for an empty line
ReadLine ==
    /\ pc = "read"
    /\ \/ /\ ~stdin.ok
          /\ Exit(output_hook_error(S("Error reading stdin")))
       \/ /\ stdin.ok
          /\ is_blank(stdin.line)
          /\ Exit(<<JsonLine(EmptyObject)>>)
       \/ /\ stdin.ok
          /\ ~is_blank(stdin.line)
          /\ pc' = "parse"
          /\ UNCHANGED <<stdout, exit_code>>
    /\ UNCHANGED <<cli, env, fs, stdin, config, event, hook, evaluated, futs,
                   order, outcomes>>

\* Event::from_json(&event_json) in main
ParseEvent ==
    /\ pc = "parse"
    /\ LET parsed == Event_from_json(stdin.line)
       IN  \/ /\ parsed.ok
              /\ event' = Some(parsed.v)
              /\ pc' = "hook"
              /\ UNCHANGED <<stdout, exit_code>>
           \/ /\ ~parsed.ok
              /\ Exit(output_hook_error(<<"Invalid JSON: ">> \o parsed.err))
              /\ UNCHANGED event
    /\ UNCHANGED <<cli, env, fs, stdin, config, hook, evaluated, futs, order, outcomes>>

\* hook_from_event(&event) in main
MakeHook ==
    /\ pc = "hook"
    /\ LET made == hook_from_event(event.v)
       IN  \/ /\ made.ok
              /\ hook' = Some(made.hook)
              /\ pc' = "dispatch"
              /\ UNCHANGED <<stdout, exit_code>>
           \/ /\ ~made.ok
              /\ Exit(output_hook_error(<<"Unknown hook: ">> \o made.err))
              /\ UNCHANGED hook
    /\ UNCHANGED <<cli, env, fs, stdin, config, event, evaluated, futs, order, outcomes>>

\* process_event up to join_all: the loop over config.handlers
ProcessEvent ==
    /\ pc = "dispatch"
    /\ LET ev == Event_from_json(stdin.line).v
           got == collect(config.v.handlers, ev, 1, <<>>, <<>>)
       IN  /\ evaluated' = got.seen
           /\ \/ /\ got.early
                 /\ outcomes' = Some(got.outcomes)
                 /\ pc' = "returned"
                 /\ UNCHANGED futs
              \/ /\ ~got.early
                 /\ futs' = got.futures
                 /\ pc' = "joining"
                 /\ UNCHANGED outcomes
    /\ UNCHANGED <<cli, env, fs, stdin, config, event, hook, order, stdout, exit_code>>

\* future i completes with `result`
Complete(i, result) ==
    /\ futs' = [futs EXCEPT ![i].st = "done",
                            ![i].out = Some(handler_outcome(futs[i].name, result))]
    /\ order' = Append(order, i)

\* whether join_all can poll future i for the first time: nothing blocks the
\* thread, and the futures before it in the list have been polled
can_start(i) ==
    /\ ~thread_busy
    /\ futs[i].st = "created"
    /\ \A j \in 1..(i - 1) : futs[j].st # "created"

\* whether join_all can poll future i again: its I/O has woken the task
can_resume(i) ==
    /\ ~thread_busy
    /\ futs[i].st = "woken"

\* the first poll of future i: handle runs up to its I/O
PollFirst(i) ==
    /\ pc = "joining"
    /\ can_start(i)
    /\ \/ /\ invalid_config(futs[i].handler_type, futs[i].config)
          /\ Complete(i, "Invalid configuration")
       \/ /\ ~invalid_config(futs[i].handler_type, futs[i].config)
          /\ blocking_io(futs[i].handler_type)
          /\ futs' = [futs EXCEPT ![i].st = "io_blocking"]
          /\ UNCHANGED order
       \/ /\ ~invalid_config(futs[i].handler_type, futs[i].config)
          /\ ~blocking_io(futs[i].handler_type)
          /\ futs' = [futs EXCEPT ![i].st = "io_async"]
          /\ UNCHANGED order
    /\ UNCHANGED <<cli, env, fs, stdin, pc, config, event, hook, evaluated,
                   outcomes, stdout, exit_code>>

\* the blocking call of future i returns, and with it the poll
BlockingReturn(i) ==
    /\ pc = "joining"
    /\ futs[i].st = "io_blocking"
    /\ \E result \in {"Ok", io_error(futs[i].handler_type)} : Complete(i, result)
    /\ UNCHANGED <<cli, env, fs, stdin, pc, config, event, hook, evaluated,
                   outcomes, stdout, exit_code>>

\* the awaited I/O of future i is over and wakes the task
IoReady(i) ==
    /\ pc = "joining"
    /\ futs[i].st = "io_async"
    /\ futs' = [futs EXCEPT ![i].st = "woken"]
    /\ UNCHANGED <<cli, env, fs, stdin, pc, config, event, hook, evaluated, order,
                   outcomes, stdout, exit_code>>

\* join_all polls future i again: handle runs from its .await to its end
PollAgain(i) ==
    /\ pc = "joining"
    /\ can_resume(i)
    /\ \E result \in {"Ok", io_error(futs[i].handler_type)} : Complete(i, result)
    /\ UNCHANGED <<cli, env, fs, stdin, pc, config, event, hook, evaluated,
                   outcomes, stdout, exit_code>>

\* join_all(handler_futures).await is ready: process_event returns Ok(outcomes)
JoinReturn ==
    /\ pc = "joining"
    /\ ~thread_busy
    /\ join_ready(futs)
    /\ outcomes' = Some(join_all_output(futs, order))
    /\ pc' = "returned"
    /\ UNCHANGED <<cli, env, fs, stdin, config, event, hook, evaluated, futs, order,
                   stdout, exit_code>>

\* the Ok(outcomes) arm of main: the response is printed, the process exits
Respond ==
    /\ pc = "returned"
    /\ Exit(<<JsonLine(generate_response(hook.v, outcomes.v))>>)
    /\ UNCHANGED <<cli, env, fs, stdin, config, event, hook, evaluated, futs,
                   order, outcomes>>


(***************************************************************************)
(* The inputs of one run                                                   *)
(***************************************************************************)
HookUrl == <<"https://h/", "{{env.", "HOOK_URL", "}}">>

\* a desktop handler for every event: Notification::show blocks
H_desk ==
    [name |-> "desk", handler_type |-> "desktop", match_rules |-> NoRules,
     match_type |-> "Exact", config |-> <<>>]
\* a webhook for every event, its url a secret: reqwest suspends
H_hook ==
    [name |-> "hook", handler_type |-> "webhook", match_rules |-> NoRules,
     match_type |-> "Exact", config |-> (K("url") :> JStr(HookUrl))]
\* a signal handler for Notification events: Command::output suspends
H_sig ==
    [name |-> "sig", handler_type |-> "signal",
     match_rules |-> Simple(K("hook_event_name") :> JStr(S("Notification"))),
     match_type |-> "Exact", config |-> (K("recipient") :> JStr(S("+1")))]
\* a handler of a type the registry does not know
H_chat ==
    [name |-> "chat", handler_type |-> "slack", match_rules |-> NoRules,
     match_type |-> "Exact", config |-> <<>>]
\* an email handler for PreToolUse events that lacks its required settings
H_mail ==
    [name |-> "mail", handler_type |-> "email",
     match_rules |-> Simple(K("hook_event_name") :> JStr(<<"^", "PreToolUse">>)),
     match_type |-> "Regex", config |-> <<>>]
\* a sound handler, used by the override
H_sound ==
    [name |-> "work", handler_type |-> "sound", match_rules |-> NoRules,
     match_type |-> "Exact", config |-> (K("file") :> JStr(S("a.wav")))]

HandlerPool == {H_desk, H_hook, H_sig, H_chat, H_mail}

HandlerLists == UNION {[1..n -> HandlerPool] : n \in 0..MaxHandlers}

WorkOverride == [path_pattern |-> <<"work", "*">>, handlers |-> <<H_sound>>]

OverrideLists == {None, Some(<<WorkOverride>>)}

Configs == [handlers : HandlerLists, overrides : OverrideLists]

\* a file: unreadable, or text that is no configuration, or a configuration
Unreadable == [readable |-> FALSE, text |-> <<>>, parsed |-> None]
NotJson == [readable |-> TRUE, text |-> S("{"), parsed |-> None]
ConfigFile(c) == [readable |-> TRUE, text |-> S("config"), parsed |-> Some(c)]

ConfigFiles == {Unreadable, NotJson} \cup {ConfigFile(c) : c \in Configs}

HomeDir == <<"home", "u">>
CliConfigPath == <<"etc", "boop.json">>
ProjectDirs == {<<"work", "special">>, <<"play">>}

\* the environments: CLAUDE_PROJECT_DIR and HOOK_URL, each set or not
Envs ==
    {(S("HOME") :> HomeDir) @@ dir @@ url :
        dir \in {<<>>} \cup {(S("CLAUDE_PROJECT_DIR") :> d) : d \in ProjectDirs},
        url \in {<<>>, (S("HOOK_URL") :> S("abc"))}}

NotificationEvent ==
    JObj((K("hook_event_name") :> JStr(S("Notification")))
         @@ (K("message") :> JStr(S("hi"))))
PreToolUseEvent ==
    JObj((K("hook_event_name") :> JStr(S("PreToolUse")))
         @@ (K("tool_name") :> JStr(S("Bash"))))
\* an event of a category hook_from_event does not know
DeployEvent == JObj(K("hook_event_name") :> JStr(S("Deploy")))
\* an event without the field, and one whose field is no string
NamelessEvent == JObj(K("tool_name") :> JStr(S("Bash")))
NumberedEvent == JObj(K("hook_event_name") :> JNum(7))

\* the events read in the runs, one after the other
Events ==
    <<NotificationEvent, PreToolUseEvent, DeployEvent, NamelessEvent, NumberedEvent>>

\* what read_line yields: an error, an empty or blank line, text that is no
\* JSON, JSON that is no object, an event
Stdins ==
    <<[ok |-> FALSE],
      [ok |-> TRUE, line |-> [text |-> <<>>, parsed |-> None]],
      [ok |-> TRUE, line |-> [text |-> <<" ", "\n">>, parsed |-> None]],
      [ok |-> TRUE, line |-> [text |-> <<"oops", "\n">>, parsed |-> None]],
      [ok |-> TRUE, line |-> [text |-> <<"[]", "\n">>, parsed |-> Some(JArr(<<>>))]]>>
    \o [i \in 1..Len(Events) |->
            [ok |-> TRUE, line |-> [text |-> <<"{..}", "\n">>, parsed |-> Some(Events[i])]]]

\* the file system: the configuration file main will load, and the project's
\* own configuration file when there is one
FileSystems(e, cliPath) ==
    LET dir == IF S("CLAUDE_PROJECT_DIR") \in DOMAIN e
               THEN Some(e[S("CLAUDE_PROJECT_DIR")]) ELSE None
        global == HomeDir \o <<".claude", "boopifier.json">>
    IN  {(IF cliPath.some THEN cliPath.v ELSE global) :> f : f \in ConfigFiles}
        \cup (IF dir.some
              THEN {IF cliPath.some
                    THEN (cliPath.v :> f) @@ (project_config_path(dir.v) :> Unreadable)
                    ELSE (project_config_path(dir.v) :> f) : f \in ConfigFiles}
              ELSE {})

Init ==
    /\ cli \in [config : {None, Some(CliConfigPath)}, list_handlers : BOOLEAN]
    /\ env \in Envs
    /\ fs \in FileSystems(env, cli.config)
    /\ \E i \in 1..Len(Stdins) : stdin = Stdins[i]
    \* with --list-handlers nothing of the rest is read
    /\ cli.list_handlers =>
          /\ cli.config = None
          /\ env = (S("HOME") :> HomeDir)
          /\ fs = (HomeDir \o <<".claude", "boopifier.json">> :> Unreadable)
          /\ stdin = [ok |-> FALSE]
    /\ pc = "start"
    /\ config = None
    /\ event = None
    /\ hook = None
    /\ evaluated = <<>>
    /\ futs = <<>>
    /\ order = <<>>
    /\ outcomes = None
    /\ stdout = <<>>
    /\ exit_code = None

Next ==
    \/ ListHandlers
    \/ LoadConfig
    \/ ApplyOverrides
    \/ ReadLine
    \/ ParseEvent
    \/ MakeHook
    \/ ProcessEvent
    \/ \E i \in 1..Len(futs) : PollFirst(i)
    \/ \E i \in 1..Len(futs) : BlockingReturn(i)
    \/ \E i \in 1..Len(futs) : IoReady(i)
    \/ \E i \in 1..Len(futs) : PollAgain(i)
    \/ JoinReturn
    \/ Respond

Spec == Init /\ [][Next]_vars


(***************************************************************************)
(* generate_response on its own: any hook, any list of outcomes            *)
(***************************************************************************)
Reasons == {None, Some(S("User denied"))}

OutcomePool ==
    {Success, Error(<<"desk", ": ", "Failed to send notification">>)}
    \cup {Interactive(d, r) : d \in PermissionDecisions, r \in Reasons}

OutcomeLists == UNION {[1..n -> OutcomePool] : n \in 0..MaxOutcomes}

\* the hooks hook_from_event makes: one for each name it knows
HookInputs ==
    {hook_from_event([data |-> (K("hook_event_name") :> JStr(n))
                               @@ (K("tool_name") :> JStr(S("Bash")))]).hook :
        n \in PassiveNames \cup {S("PreToolUse")}}

InitHook ==
    /\ cli = [config |-> None, list_handlers |-> FALSE]
    /\ env = <<>>
    /\ fs = <<>>
    /\ stdin = [ok |-> FALSE]
    /\ pc = "generate"
    /\ config = None
    /\ event = None
    /\ hook \in {Some(h) : h \in HookInputs}
    /\ evaluated = <<>>
    /\ futs = <<>>
    /\ order = <<>>
    /\ outcomes \in {Some(l) : l \in OutcomeLists}
    /\ stdout = <<>>
    /\ exit_code = None

\* hook.generate_response(&outcomes), its value printed
GenerateResponse ==
    /\ pc = "generate"
    /\ stdout' = <<JsonLine(generate_response(hook.v, outcomes.v))>>
    /\ pc' = "generated"
    /\ UNCHANGED <<cli, env, fs, stdin, config, event, hook, evaluated, futs,
                   order, outcomes, exit_code>>

NextHook == GenerateResponse

SpecHook == InitHook /\ [][NextHook]_vars

(***************************************************************************)
(* The matcher on its own: one handler, any rule, any event                *)
(***************************************************************************)
PermissionRequestEvent == JObj(K("hook_event_name") :> JStr(S("PermissionRequest")))
\* an event with nested fields of every type
ToolEvent ==
    JObj((K("hook_event_name") :> JStr(S("PreToolUse")))
         @@ (K("tool") :> JObj((K("name") :> JStr(S("Bash")))
                               @@ (K("timeout") :> JNum(5))
                               @@ (K("safe") :> JBool(TRUE))
                               @@ (K("flags") :> JArr(<<JStr(S("a")), JStr(S("b"))>>))
                               @@ (K("input") :> JObj(K("cmd") :> JStr(S("ls"))))))
         @@ (K("tags") :> JArr(<<JStr(S("a")), JStr(S("b"))>>))
         @@ (K("count") :> JNum(5)))
\* an event whose message is the text of a pattern that does not compile
ParenEvent ==
    JObj((K("hook_event_name") :> JStr(S("Notification")))
         @@ (K("message") :> JStr(S("("))))
TagEvent ==
    JObj((K("hook_event_name") :> JStr(S("Stop")))
         @@ (K("tags") :> JArr(<<JStr(S("b"))>>)))

MatchEvents ==
    <<NotificationEvent, PermissionRequestEvent, ToolEvent, ParenEvent, TagEvent>>

\* the Simple maps the complex rules are made of
SubRules ==
    <<K("hook_event_name") :> JStr(S("Notification")),
      K("hook_event_name") :> JStr(S("Stop")),
      K("message") :> JStr(S("hi"))>>

\* the maps of the Simple rules
SimpleMaps ==
    SubRules \o
    <<<<>>,
      K("hook_event_name") :> JStr(<<"^", "PreToolUse", "$">>),
      K("hook_event_name") :> JStr(<<"Tool">>),
      K("message") :> JStr(S("(")),
      <<"tool", "name">> :> JStr(S("Bash")),
      <<"tool", "timeout">> :> JNum(5),
      <<"tool", "safe">> :> JBool(TRUE),
      <<"tool", "flags">> :> JArr(<<JStr(S("a"))>>),
      <<"tool", "input">> :> JObj(K("cmd") :> JStr(S("ls"))),
      <<"tool", "input", "cmd">> :> JStr(S("ls")),
      <<"tool", "missing">> :> JStr(S("Bash")),
      <<"tool", "name">> :> JStr(S("Zsh")),
      K("tags") :> JArr(<<JStr(S("a"))>>),
      K("tags") :> JArr(<<JStr(S("b")), JStr(S("a"))>>),
      K("tags") :> JArr(<<JStr(S("c"))>>),
      K("tags") :> JArr(<<JStr(S("a")), JStr(S("c"))>>),
      K("tags") :> JArr(<<>>),
      K("count") :> JNum(5),
      K("tool") :> JObj(K("name") :> JStr(S("Bash"))),
      (K("hook_event_name") :> JStr(S("Notification"))) @@ (K("message") :> JStr(S("("))),
      K("all") :> JArr(<<JStr(S("x")), JNum(5)>>),
      K("any") :> JStr(S("x")),
      K("not") :> JArr(<<JStr(S("a"))>>),
      K("all") :> JObj(K("hook_event_name") :> JStr(S("Notification"))),
      (K("any") :> JStr(S("x"))) @@ (K("not") :> JObj(K("hook_event_name") :> JStr(S("Stop")))),
      (K("all") :> JNum(5)) @@ (K("any") :> JBool(TRUE)) @@ (K("not") :> JNull)>>

\* a list of sub-rules, or none: the positions in SubRules
OptLists ==
    {None} \cup {Some(l) : l \in UNION {[1..n -> 1..Len(SubRules)] : n \in 0..MaxRuleList}}
\* one sub-rule, or none
OptOne == {None} \cup {Some(i) : i \in 1..Len(SubRules)}

list_of(l) == IF l.some THEN Some([i \in 1..Len(l.v) |-> SubRules[l.v[i]]]) ELSE None
one_of(n) == IF n.some THEN Some(SubRules[n.v]) ELSE None

\* the map serde makes of {"all": [...], "any": [...], "not": {...}} when it
\* takes the Simple variant
untagged(a, y, n) ==
    (IF a.some THEN K("all") :> JArr([i \in 1..Len(a.v) |-> JObj(SubRules[a.v[i]])])
     ELSE <<>>)
    @@ (IF y.some THEN K("any") :> JArr([i \in 1..Len(y.v) |-> JObj(SubRules[y.v[i]])])
        ELSE <<>>)
    @@ (IF n.some THEN K("not") :> JObj(SubRules[n.v]) ELSE <<>>)

\* a field beside all, any, not in such a map: no event's message is "bye"
OtherField == K("message") :> JStr(S("bye"))

\* the handler whose rule is tried
H_rule(rules, match_type, handler_type) ==
    [name |-> "h", handler_type |-> handler_type, match_rules |-> rules,
     match_type |-> match_type, config |-> <<>>]

\* main has loaded a configuration with the one handler and read the event
InitMatch ==
    /\ cli = [config |-> None, list_handlers |-> FALSE]
    /\ env = (S("HOME") :> HomeDir)
    /\ \E e \in 1..Len(MatchEvents), match_type \in {"Exact", "Regex"},
          handler_type \in {"desktop", "slack"} :
          /\ stdin = [ok |-> TRUE,
                      line |-> [text |-> <<"{..}", "\n">>, parsed |-> Some(MatchEvents[e])]]
          /\ event = Some(Event_from_json(stdin.line).v)
          /\ hook = Some(hook_from_event(event.v).hook)
          /\ \/ config = Some([handlers |-> <<H_rule(NoRules, match_type, handler_type)>>,
                               overrides |-> None])
             \/ \E i \in 1..Len(SimpleMaps) :
                   config = Some([handlers |-> <<H_rule(Simple(SimpleMaps[i]), match_type,
                                                        handler_type)>>,
                                  overrides |-> None])
             \/ \E a \in OptLists, y \in OptLists, n \in OptOne :
                   \/ config = Some([handlers |->
                                        <<H_rule(Complex(list_of(a), list_of(y), one_of(n)),
                                                 match_type, handler_type)>>,
                                     overrides |-> None])
                   \/ /\ a.some \/ y.some \/ n.some
                      /\ config = Some([handlers |->
                                           <<H_rule(Simple(untagged(a, y, n)), match_type,
                                                    handler_type)>>,
                                        overrides |-> None])
                   \/ /\ a.some \/ y.some \/ n.some
                      /\ config = Some([handlers |->
                                           <<H_rule(Simple(untagged(a, y, n) @@ OtherField),
                                                    match_type, handler_type)>>,
                                        overrides |-> None])
    /\ fs = (HomeDir \o <<".claude", "boopifier.json">> :> ConfigFile(config.v))
    /\ pc = "dispatch"
    /\ evaluated = <<>>
    /\ futs = <<>>
    /\ order = <<>>
    /\ outcomes = None
    /\ stdout = <<>>
    /\ exit_code = None

NextMatch == ProcessEvent

SpecMatch == InitMatch /\ [][NextMatch]_vars

(***************************************************************************)
(* apply_overrides on its own: any list of overrides, any project path    *)
(***************************************************************************)
OverridePatterns ==
    {<<"work", "*">>, <<"*">>, <<"work", "special">>, <<"play">>, <<"[">>}

OverrideNames == <<"first", "second", "third", "fourth">>

\* the handler lists of the override in place i: none, or one of its own
OverrideHandlers(i) ==
    {<<>>,
     <<[name |-> OverrideNames[i], handler_type |-> "sound", match_rules |-> NoRules,
        match_type |-> "Exact", config |-> (K("file") :> JStr(S("a.wav")))]>>}

OverridesOfLength(n) ==
    {q \in [1..n -> [path_pattern : OverridePatterns,
                     handlers : UNION {OverrideHandlers(i) : i \in 1..n}]] :
        \A i \in 1..n : q[i].handlers \in OverrideHandlers(i)}

OverrideConfigs ==
    [handlers : {<<>>, <<H_desk>>, <<H_desk, H_sig>>},
     overrides : {None} \cup {Some(q) : q \in UNION {OverridesOfLength(n) :
                                                       n \in 0..MaxOverrides}}]

OverrideDirs == {<<"work", "special">>, <<"work">>, <<"play">>}

\* main has loaded the configuration: from the project's own file, or from
\* the global one
InitOverrides ==
    /\ cli = [config |-> None, list_handlers |-> FALSE]
    /\ \E c \in OverrideConfigs, dir \in {None} \cup {Some(d) : d \in OverrideDirs},
          own \in BOOLEAN :
          /\ own => dir.some
          /\ env = (S("HOME") :> HomeDir)
                   @@ (IF dir.some THEN S("CLAUDE_PROJECT_DIR") :> dir.v ELSE <<>>)
          /\ fs = ((IF own THEN project_config_path(dir.v)
                    ELSE HomeDir \o <<".claude", "boopifier.json">>) :> ConfigFile(c))
          /\ config = Some(c)
    /\ stdin = [ok |-> TRUE, line |-> [text |-> <<"{..}", "\n">>, parsed |-> Some(NotificationEvent)]]
    /\ pc = "loaded"
    /\ event = None
    /\ hook = None
    /\ evaluated = <<>>
    /\ futs = <<>>
    /\ order = <<>>
    /\ outcomes = None
    /\ stdout = <<>>
    /\ exit_code = None

NextOverrides == ApplyOverrides

SpecOverrides == InitOverrides /\ [][NextOverrides]_vars

(***************************************************************************)
(* Secrets on their own: one handler whose url is any string of pieces     *)
(***************************************************************************)
\* the pieces a configured string is made of: text, placeholders, and a
\* placeholder that is never closed
Pieces ==
    {<<"x_">>, <<"_y">>, <<"{{env.", "FOO", "}}">>, <<"{{env.", "OTHER", "}}">>,
     <<"{{file.", "p", "}}">>, <<"{{env.", "FOO">>}

RECURSIVE Flatten(_)
Flatten(q) == IF q = <<>> THEN <<>> ELSE Head(q) \o Flatten(Tail(q))

SecretStrings == {Flatten(q) : q \in UNION {[1..n -> Pieces] : n \in 0..MaxPieces}}

\* FOO unset, set to a plain value or set to a value that is itself a file
\* placeholder; OTHER set or not
SecretEnvs ==
    {(S("HOME") :> HomeDir) @@ foo @@ other :
        foo \in {<<>>, (S("FOO") :> S("bar")),
                 (S("FOO") :> <<"{{file.", "p", "}}">>)},
        other \in {<<>>, (S("OTHER") :> S("baz"))}}

\* the file p: not there, a token with whitespace around, or a text that is
\* itself an environment placeholder
SecretFiles ==
    {<<>>,
     (S("p") :> [readable |-> TRUE, text |-> <<" ", "tok", "\n">>, parsed |-> None]),
     (S("p") :> [readable |-> TRUE, text |-> <<"{{env.", "OTHER", "}}", "\n">>,
                 parsed |-> None])}

H_secret(str) ==
    [name |-> "hook", handler_type |-> "webhook", match_rules |-> NoRules,
     match_type |-> "Exact", config |-> (K("url") :> JStr(str))]

\* a webhook whose payload object and headers array hold the string
H_nested(str) ==
    [name |-> "hook", handler_type |-> "webhook", match_rules |-> NoRules,
     match_type |-> "Exact",
     config |-> (K("url") :> JStr(<<"x_">>))
                @@ (K("payload") :> JObj(K("text") :> JStr(str)))
                @@ (K("headers") :> JArr(<<JStr(str)>>))]

\* where the string stands: in the base handler, in the handler of an
\* override for another project, in the handler of an override for this
\* project, or inside the object and array values of the base handler
Placements == {"base", "override", "selected", "nested"}

SecretConfig(str, place) ==
    CASE place = "base" -> [handlers |-> <<H_secret(str)>>, overrides |-> None]
      [] place = "nested" -> [handlers |-> <<H_nested(str)>>, overrides |-> None]
      [] OTHER ->
            [handlers |-> <<H_secret(<<"x_">>)>>,
             overrides |-> Some(<<[path_pattern |-> <<"play">>,
                                   handlers |-> <<H_secret(str)>>]>>)]

\* main is about to load the configuration
InitSecrets ==
    /\ cli = [config |-> None, list_handlers |-> FALSE]
    /\ \E str \in SecretStrings, files \in SecretFiles, place \in Placements,
          e \in SecretEnvs :
          /\ env = e @@ (IF place = "selected"
                         THEN S("CLAUDE_PROJECT_DIR") :> <<"play">> ELSE <<>>)
          /\ fs = (HomeDir \o <<".claude", "boopifier.json">>
                       :> ConfigFile(SecretConfig(str, place)))
                  @@ files
    /\ stdin = [ok |-> TRUE, line |-> [text |-> <<"{..}", "\n">>, parsed |-> Some(NotificationEvent)]]
    /\ pc = "start"
    /\ config = None
    /\ event = None
    /\ hook = None
    /\ evaluated = <<>>
    /\ futs = <<>>
    /\ order = <<>>
    /\ outcomes = None
    /\ stdout = <<>>
    /\ exit_code = None

NextSecrets == LoadConfig

SpecSecrets == InitSecrets /\ [][NextSecrets]_vars

(***************************************************************************)
(* Dispatch: the claims about process_event and main                       *)
(***************************************************************************)
\* the handlers of the active list whose rule matches the event, in order
RECURSIVE MatchingFrom(_, _, _)
MatchingFrom(handlers, ev, i) ==
    IF i > Len(handlers) THEN <<>>
    ELSE IF matches(ev, handlers[i].match_rules, handlers[i].match_type)
         THEN <<i>> \o MatchingFrom(handlers, ev, i + 1)
         ELSE MatchingFrom(handlers, ev, i + 1)

Matching == MatchingFrom(config.v.handlers, event.v, 1)

\* the matching handlers whose type the registry does not know
UnknownTypes ==
    {i \in Range(Matching) : config.v.handlers[i].handler_type \notin RegisteredTypes}

\* a future whose handler has been polled and has not completed
Running(f) == f.st \in {"io_blocking", "io_async", "woken"}

\* the degrade-gracefully object: continue = true and a warning message
IsDegrade(line) ==
    /\ line.json
    /\ line.v.t = "object"
    /\ DOMAIN line.v.v = {K("continue"), K("systemMessage")}
    /\ line.v.v[K("continue")] = JBool(TRUE)
    /\ line.v.v[K("systemMessage")].t = "string"
    /\ Head(line.v.v[K("systemMessage")].v) = "Boopifier warning: "

\* C1: when a matching handler's type is not in the registry, the outcomes
\* process_event returns hold an Error naming that handler, and every other
\* matching handler was invoked and has its own outcome in the list.
C1_UnknownTypeDoesNotAbort ==
    (outcomes.some /\ event.some /\ UnknownTypes # {}) =>
        /\ \A u \in UnknownTypes :
              \E k \in 1..Len(outcomes.v) :
                  /\ outcomes.v[k].kind = "Error"
                  /\ Head(outcomes.v[k].msg) = config.v.handlers[u].name
        /\ Len(outcomes.v) = Len(Matching)
        /\ \A i \in Range(Matching) \ UnknownTypes :
              \E f \in 1..Len(futs) : futs[f].idx = i /\ futs[f].st = "done"

\* C2: when every matching handler's type resolves, process_event returns one
\* outcome per matching handler, the k-th being the one the k-th matching
\* handler's future produced, in whatever order the futures completed.
C2_OutcomesInConfigurationOrder ==
    (outcomes.some /\ event.some /\ UnknownTypes = {}) =>
        /\ Len(outcomes.v) = Len(Matching)
        /\ \A k \in 1..Len(Matching) :
              \E f \in 1..Len(futs) :
                  /\ futs[f].idx = Matching[k]
                  /\ futs[f].out = Some(outcomes.v[k])

\* two handlers matched, the second completed first, with another result
C2_Witness ==
    /\ outcomes.some
    /\ Len(futs) = 2
    /\ order = <<2, 1>>
    /\ outcomes.v[1].kind = "Error"
    /\ outcomes.v[2].kind = "Success"

\* C3: when an invoked handler returns an error, process_event still returns:
\* the list has one outcome per invoked handler, the failed handler's is an
\* Error whose message starts with its configured name, every handler's outcome
\* is what its own result gives, and the response is printed.
C3_HandlerErrorIsIsolated ==
    (pc = "exited" /\ \E f \in 1..Len(futs) : futs[f].out.some /\ futs[f].out.v.kind = "Error") =>
        /\ outcomes.some
        /\ Len(outcomes.v) = Len(futs)
        /\ \A f \in 1..Len(futs) :
              /\ outcomes.v[f] = futs[f].out.v
              /\ outcomes.v[f].kind = "Error" =>
                    /\ Head(outcomes.v[f].msg) = config.v.handlers[futs[f].idx].name
                    /\ Len(outcomes.v[f].msg) = 3
        /\ stdout = <<JsonLine(generate_response(hook.v, outcomes.v))>>
        /\ exit_code = Some(0)

\* the first handler failed in its I/O, its sibling succeeded
C3_Witness ==
    /\ pc = "exited"
    /\ Len(futs) = 2
    /\ futs[1].out = Some(Error(<<"hook", ": ", "Network request failed">>))
    /\ futs[2].out = Some(Success)
    /\ Len(stdout) = 1

\* C4: the response is printed, and process_event returns, only when every
\* future of the event has completed; none is still running, none was left out.
C4_FullBarrier ==
    (stdout # <<>> \/ outcomes.some) =>
        /\ \A f \in 1..Len(futs) : ~Running(futs[f]) /\ futs[f].st = "done"
        /\ (outcomes.some /\ futs # <<>>) => Len(outcomes.v) = Len(futs)

\* the response is out after two handlers ran, the second finishing first
C4_Witness ==
    /\ stdout # <<>>
    /\ Len(futs) = 2
    /\ order = <<2, 1>>
    /\ \A f \in 1..Len(futs) : futs[f].st = "done"

\* C5: while a launched handler waits inside its own I/O, a sibling that is
\* ready to start or to go on can do so.
C5_IoNeverBlocksSiblings ==
    \A i \in 1..Len(futs) :
        (pc = "joining" /\ futs[i].st \in {"io_blocking", "io_async"}) =>
            \A j \in 1..Len(futs) :
                /\ (futs[j].st = "created" /\ \A h \in 1..(j - 1) : futs[h].st # "created")
                      => ENABLED PollFirst(j)
                /\ futs[j].st = "woken" => ENABLED PollAgain(j)


\* C6: a run without --list-handlers prints nothing before it exits, has a
\* next step in every state after the load until it exits, and at exit has
\* printed exactly one line, which is JSON, with exit code 0.
C6_OneJsonLineAndSuccess ==
    ~cli.list_handlers =>
        /\ pc \notin {"exited", "generated"} => stdout = <<>>
        /\ pc \in {"loaded", "read", "parse", "hook", "dispatch", "joining", "returned"}
              => ENABLED Next
        /\ pc = "exited" =>
              /\ Len(stdout) = 1
              /\ stdout[1].json
              /\ exit_code = Some(0)

\* a run that stopped at a configuration that could not be loaded
C6_Witness ==
    /\ pc = "exited"
    /\ ~cli.list_handlers
    /\ config = None
    /\ Len(stdout) = 1
    /\ exit_code = Some(0)

\* the hook_event_name of the event read, when it is a string
EventName ==
    IF K("hook_event_name") \in DOMAIN event.v.data
       /\ event.v.data[K("hook_event_name")].t = "string"
    THEN Some(event.v.data[K("hook_event_name")].v)
    ELSE None

RecognizedNames ==
    {S("Stop"), S("SubagentStop"), S("Notification"), S("PreToolUse"),
     S("PostToolUse"), S("PermissionRequest"), S("UserPromptSubmit"),
     S("SessionStart"), S("SessionEnd"), S("PreCompact")}

\* C7: for an event whose hook_event_name is missing, not a string or not one
\* of the ten names, no handler's rule is evaluated and no handler is invoked,
\* and the line printed at exit is the continue-with-warning object.
C7_UnknownCategoryRunsNothing ==
    (event.some /\ (~EventName.some \/ EventName.v \notin RecognizedNames)) =>
        /\ evaluated = <<>>
        /\ futs = <<>>
        /\ outcomes = None
        /\ pc = "exited" => (Len(stdout) = 1 /\ IsDegrade(stdout[1]) /\ exit_code = Some(0))

\* an event named by a number, with a handler configured that matches any event
C7_Witness ==
    /\ pc = "exited"
    /\ event.some
    /\ K("hook_event_name") \in DOMAIN event.v.data
    /\ event.v.data[K("hook_event_name")].t = "number"
    /\ config.some
    /\ \E i \in 1..Len(config.v.handlers) : config.v.handlers[i].match_rules = NoRules
    /\ IsDegrade(stdout[1])

\* whether a string names an environment variable that is not set
NamesUnsetVariable(val) ==
    /\ val.t = "string"
    /\ \E p \in 1..(Len(val.v) - 2) :
          /\ val.v[p] = "{{env."
          /\ val.v[p + 2] = "}}"
          /\ <<val.v[p + 1]>> \notin DOMAIN env

HandlersNameUnsetVariable(handlers) ==
    \E i \in 1..Len(handlers) :
        \E k \in DOMAIN handlers[i].config : NamesUnsetVariable(handlers[i].config[k])

\* the configuration file is unreadable, is not JSON, or has a handler (of the
\* base list or of an override) with a secret that does not resolve
LoadFails ==
    \/ config_path \notin DOMAIN fs
    \/ ~fs[config_path].readable
    \/ ~fs[config_path].parsed.some
    \/ HandlersNameUnsetVariable(fs[config_path].parsed.v.handlers)
    \/ /\ fs[config_path].parsed.v.overrides.some
       /\ \E o \in 1..Len(fs[config_path].parsed.v.overrides.v) :
             HandlersNameUnsetVariable(fs[config_path].parsed.v.overrides.v[o].handlers)

\* the line read is not blank and is not a JSON object
ParseFails ==
    /\ stdin.ok
    /\ ~is_blank(stdin.line)
    /\ ~(stdin.line.parsed.some /\ stdin.line.parsed.v.t = "object")

\* C8: when loading the configuration fails, or the line read is not a JSON
\* object, no handler's rule is evaluated and no handler is invoked, and the
\* run ends with the one continue-with-warning line and exit code 0.
C8_LoadOrParseFailureRunsNothing ==
    (~cli.list_handlers /\ pc # "generate" /\ pc # "generated" /\ (LoadFails \/ ParseFails)) =>
        /\ evaluated = <<>>
        /\ futs = <<>>
        /\ outcomes = None
        /\ hook = None
        /\ pc = "exited" => (Len(stdout) = 1 /\ IsDegrade(stdout[1]) /\ exit_code = Some(0))

\* a good event on standard input, a handler whose url names an unset variable
C8_Witness ==
    /\ pc = "exited"
    /\ ~cli.list_handlers
    /\ LoadFails
    /\ fs[config_path].parsed.some
    /\ HandlersNameUnsetVariable(fs[config_path].parsed.v.handlers)
    /\ stdin.ok /\ ~is_blank(stdin.line) /\ ~ParseFails
    /\ IsDegrade(stdout[1])


(***************************************************************************)
(* PreToolUse: the claims about generate_response                          *)
(***************************************************************************)
\* the positions of the Interactive outcomes
InteractiveAt == {k \in 1..Len(outcomes.v) : outcomes.v[k].kind = "Interactive"}

\* the response printed
Response == stdout[1].v

AllowResponse ==
    JObj(K("hookSpecificOutput") :>
         JObj((K("hookEventName") :> JStr(S("PreToolUse")))
              @@ (K("permissionDecision") :> JStr(S("allow")))))

\* C9: the response of a PreToolUse hook to outcomes that hold no Interactive
\* is hookSpecificOutput with hookEventName "PreToolUse" and
\* permissionDecision "allow", and nothing else: no reason field.
C9_DefaultIsAllow ==
    (pc = "generated" /\ hook.v.kind = "PreToolUse" /\ InteractiveAt = {}) =>
        /\ JsonEq(Response, AllowResponse)
        /\ DOMAIN Response.v[K("hookSpecificOutput")].v
              = {K("hookEventName"), K("permissionDecision")}

\* a handler succeeded and another failed; none was interactive
C9_Witness ==
    /\ pc = "generated"
    /\ hook.v.kind = "PreToolUse"
    /\ Len(outcomes.v) = 2
    /\ outcomes.v[1].kind = "Success"
    /\ outcomes.v[2].kind = "Error"
    /\ JsonEq(Response, AllowResponse)

\* C10: with at least one Interactive outcome, the response of a PreToolUse
\* hook carries the decision of the first one, in lower case, and its reason:
\* the reason field is there exactly when that outcome has a reason. No other
\* outcome changes the response.
C10_FirstInteractiveDecides ==
    (pc = "generated" /\ hook.v.kind = "PreToolUse" /\ InteractiveAt # {}) =>
        LET first == outcomes.v[CHOOSE k \in InteractiveAt : \A h \in InteractiveAt : k <= h]
            output == Response.v[K("hookSpecificOutput")].v
            lower == [d \in PermissionDecisions |->
                        IF d = "Allow" THEN S("allow")
                        ELSE IF d = "Deny" THEN S("deny") ELSE S("ask")]
        IN  /\ DOMAIN Response.v = {K("hookSpecificOutput")}
            /\ output[K("hookEventName")] = JStr(S("PreToolUse"))
            /\ output[K("permissionDecision")] = JStr(lower[first.decision])
            /\ (K("permissionDecisionReason") \in DOMAIN output) <=> first.reason.some
            /\ first.reason.some =>
                  output[K("permissionDecisionReason")] = JStr(first.reason.v)
            /\ DOMAIN output \subseteq {K("hookEventName"), K("permissionDecision"),
                                        K("permissionDecisionReason")}

\* a failure, then a denial with its reason, then an allow without one
C10_Witness ==
    /\ pc = "generated"
    /\ hook.v.kind = "PreToolUse"
    /\ outcomes.v = <<Error(<<"desk", ": ", "Failed to send notification">>),
                      Interactive("Deny", Some(S("User denied"))),
                      Interactive("Allow", None)>>
    /\ Response.v[K("hookSpecificOutput")].v[K("permissionDecision")] = JStr(S("deny"))


\* C11: for each of the nine passive categories the response is the empty
\* object, whatever the outcomes are: Success, Error or Interactive.
C11_PassiveResponseIsEmpty ==
    (pc = "generated" /\ hook.v.kind # "PreToolUse") =>
        /\ hook.v.hook_name \in
              {S("SessionStart"), S("SessionEnd"), S("PreCompact"), S("Notification"),
               S("PostToolUse"), S("PermissionRequest"), S("UserPromptSubmit"),
               S("Stop"), S("SubagentStop")}
        /\ Response.t = "object"
        /\ DOMAIN Response.v = {}

\* a Stop hook after a failure and a denial
C11_Witness ==
    /\ pc = "generated"
    /\ hook.v = [kind |-> "Passive", hook_name |-> S("Stop")]
    /\ outcomes.v = <<Error(<<"desk", ": ", "Failed to send notification">>),
                      Interactive("Deny", Some(S("User denied")))>>
    /\ JsonEq(Response, EmptyObject)


(***************************************************************************)
(* The matcher: the claims about matches                                   *)
(***************************************************************************)
\* the rule and the mode of the one handler, and the event it is tried on
TheRule == config.v.handlers[1].match_rules
TheMode == config.v.handlers[1].match_type
\* process_event has tried the handler's rule
Tried == pc # "dispatch" /\ evaluated = <<1>>
\* the handler was selected: its future was pushed, or its type was looked up
Fires == futs # <<>> \/ outcomes.some

\* C12: a handler without a match rule is selected for every event, in both
\* match modes.
C12_NoRuleMatchesEveryEvent ==
    (pc # "dispatch" /\ TheRule.k = "None") => (Tried /\ Fires)

\* no rule, Regex mode, the event with nested fields
C12_Witness ==
    /\ Tried
    /\ TheRule.k = "None"
    /\ TheMode = "Regex"
    /\ JsonEq(JObj(event.v.data), ToolEvent)
    /\ Len(futs) = 1

\* C13: a Complex rule whose all, any and not are all absent selects the
\* handler for no event, in both match modes.
C13_EmptyComplexNeverMatches ==
    (Tried /\ TheRule.k = "Complex"
     /\ ~TheRule.all.some /\ ~TheRule.any.some /\ ~TheRule.not.some) => ~Fires

\* the empty Complex rule tried on a Notification event
C13_Witness ==
    /\ Tried
    /\ TheRule.k = "Complex"
    /\ ~TheRule.all.some /\ ~TheRule.any.some /\ ~TheRule.not.some
    /\ JsonEq(JObj(event.v.data), NotificationEvent)
    /\ pc = "joining"
    /\ futs = <<>>

\* C14: a Complex rule with a component present selects the handler exactly
\* when every member of all matches as a Simple rule, some member of any
\* does, and not does not, each condition counting only when its component is
\* present; a present, empty any list never selects it.
C14_ComplexIsAllAnyNot ==
    (Tried /\ TheRule.k = "Complex"
     /\ (TheRule.all.some \/ TheRule.any.some \/ TheRule.not.some)) =>
        /\ Fires <=>
              /\ ~TheRule.all.some
                 \/ \A i \in 1..Len(TheRule.all.v) :
                        matches_simple(event.v, TheRule.all.v[i], TheMode)
              /\ ~TheRule.any.some
                 \/ \E i \in 1..Len(TheRule.any.v) :
                        matches_simple(event.v, TheRule.any.v[i], TheMode)
              /\ ~TheRule.not.some
                 \/ ~matches_simple(event.v, TheRule.not.v, TheMode)
        /\ (TheRule.any.some /\ TheRule.any.v = <<>>) => ~Fires

\* all holds two rules that both match, any is there and empty
C14_Witness ==
    /\ Tried
    /\ TheRule.k = "Complex"
    /\ TheRule.all.some /\ Len(TheRule.all.v) = 2
    /\ \A i \in 1..2 : matches_simple(event.v, TheRule.all.v[i], TheMode)
    /\ TheRule.all.v[1] # TheRule.all.v[2]
    /\ TheRule.any = Some(<<>>)
    /\ ~TheRule.not.some
    /\ ~Fires

\* whether a Simple map has only the keys all, any and not, at least one of
\* them, with lists of objects for all and any and an object for not
IsUntaggedComplex(map) ==
    /\ DOMAIN map # {}
    /\ DOMAIN map \subseteq {K("all"), K("any"), K("not")}
    /\ \A key \in DOMAIN map \cap {K("all"), K("any")} :
          /\ map[key].t = "array"
          /\ \A i \in 1..Len(map[key].v) : map[key].v[i].t = "object"
    /\ K("not") \in DOMAIN map => map[K("not")].t = "object"

\* the Complex rule with the components of such a map
AsComplex(map) ==
    Complex(IF K("all") \in DOMAIN map
            THEN Some([i \in 1..Len(map[K("all")].v) |-> map[K("all")].v[i].v])
            ELSE None,
            IF K("any") \in DOMAIN map
            THEN Some([i \in 1..Len(map[K("any")].v) |-> map[K("any")].v[i].v])
            ELSE None,
            IF K("not") \in DOMAIN map THEN Some(map[K("not")].v) ELSE None)

\* the rule {"any": [{hook_event_name: Notification}, {hook_event_name: Stop}]}
NotificationOrStop == untagged(None, Some(<<1, 2>>), None)

\* C15: a rule that was parsed as Simple and holds only all, any, not
\* components, well formed, selects the handler exactly when the Complex rule
\* with those components does; so the untagged any-rule for Notification or
\* Stop selects it for a Notification event and not for a PermissionRequest.
C15_UntaggedComplexIsComplex ==
    (Tried /\ TheRule.k = "Simple" /\ IsUntaggedComplex(TheRule.rules)) =>
        /\ Fires <=> matches_complex(event.v, AsComplex(TheRule.rules).all,
                                     AsComplex(TheRule.rules).any,
                                     AsComplex(TheRule.rules).not, TheMode)
        /\ (DOMAIN TheRule.rules = {K("any")} /\ TheRule.rules = NotificationOrStop) =>
              /\ JsonEq(JObj(event.v.data), NotificationEvent) => Fires
              /\ JsonEq(JObj(event.v.data), PermissionRequestEvent) => ~Fires

\* the untagged any-rule, tried on a Notification event, selects the handler
C15_Witness ==
    /\ Tried
    /\ TheRule.k = "Simple"
    /\ DOMAIN TheRule.rules = {K("any")}
    /\ TheRule.rules = NotificationOrStop
    /\ JsonEq(JObj(event.v.data), NotificationEvent)
    /\ Fires

\* C16: a Simple rule of one pair whose path has a '.' selects the handler
\* exactly when the nested traversal of the event finds a value at the path
\* and that value matches the expected one, whatever the type of the value.
C16_DottedPathComparesEveryType ==
    (Tried /\ TheRule.k = "Simple" /\ Cardinality(DOMAIN TheRule.rules) = 1) =>
        \A key \in DOMAIN TheRule.rules :
            Len(key) > 1 =>
                LET found == walk(JObj(event.v.data), key)
                IN  Fires <=> (found.some
                               /\ values_match(found.v, TheRule.rules[key], TheMode))

C18_ArrayIsSubsetTest ==
    (Tried /\ TheRule.k = "Simple" /\ DOMAIN TheRule.rules = {K("tags")}
     /\ TheRule.rules[K("tags")].t = "array"
     /\ K("tags") \in DOMAIN event.v.data
     /\ event.v.data[K("tags")].t = "array") =>
        (Fires <=>
            {TheRule.rules[K("tags")].v[i].v : i \in 1..Len(TheRule.rules[K("tags")].v)}
            \subseteq
            {event.v.data[K("tags")].v[j].v : j \in 1..Len(event.v.data[K("tags")].v)})

\* the expected elements in another order than the field has them
C18_Witness ==
    /\ Tried
    /\ TheRule.k = "Simple"
    /\ DOMAIN TheRule.rules = {K("tags")}
    /\ JsonEq(TheRule.rules[K("tags")], JArr(<<JStr(S("b")), JStr(S("a"))>>))
    /\ K("tags") \in DOMAIN event.v.data
    /\ JsonEq(event.v.data[K("tags")], JArr(<<JStr(S("a")), JStr(S("b"))>>))
    /\ Fires


(***************************************************************************)
(* Overrides: the claim about apply_overrides                              *)
(***************************************************************************)
\* the configuration as it was loaded, and the project path main passes
LoadedConfig == fs[config_path].parsed.v
ProjectPath == env[S("CLAUDE_PROJECT_DIR")]
\* main has called apply_overrides
OverridesApplied ==
    /\ pc = "read"
    /\ S("CLAUDE_PROJECT_DIR") \in DOMAIN env
    /\ project_config_path(ProjectPath) \notin DOMAIN fs
\* the places of the overrides whose pattern matches the project path
MatchingOverrides ==
    IF LoadedConfig.overrides.some
    THEN {i \in 1..Len(LoadedConfig.overrides.v) :
             override_matches(LoadedConfig.overrides.v[i], ProjectPath)}
    ELSE {}

\* C19: after apply_overrides the handler list is the list of the last
\* override whose pattern matches the project path, and nothing else; with
\* no matching override, or no overrides list, it is the base list.
C19_LastMatchingOverrideReplaces ==
    OverridesApplied =>
        IF MatchingOverrides = {}
        THEN config.v.handlers = LoadedConfig.handlers
        ELSE LET last == CHOOSE i \in MatchingOverrides :
                             \A j \in MatchingOverrides : j <= i
             IN  config.v.handlers = LoadedConfig.overrides.v[last].handlers

\* two overrides match, the base list is not empty: the second one's list
C19_Witness ==
    /\ OverridesApplied
    /\ MatchingOverrides = {1, 2}
    /\ LoadedConfig.handlers = <<H_desk, H_sig>>
    /\ Len(LoadedConfig.overrides.v[1].handlers) = 1
    /\ Len(config.v.handlers) = 1
    /\ config.v.handlers[1].name = "second"


(***************************************************************************)
(* Secrets: the claims about resolve_secret_string                         *)
(***************************************************************************)
\* the string configured, and the string the loaded configuration holds
ConfiguredString == fs[config_path].parsed.v.handlers[1].config[K("url")].v
ResolvedString == config.v.handlers[1].config[K("url")].v

\* the places of the {{env. tokens of a string
EnvOpenings(str) == {i \in 1..Len(str) : str[i] = "{{env."}

\* whether the first {{env. of the string opens {{env.NAME}} with NAME set
FirstEnvIsSet(str) ==
    /\ EnvOpenings(str) # {}
    /\ LET first == CHOOSE i \in EnvOpenings(str) : \A j \in EnvOpenings(str) : i <= j
       IN  /\ first + 2 <= Len(str)
           /\ str[first + 2] = "}}"
           /\ <<str[first + 1]>> \in DOMAIN env

\* the name in the first placeholder of such a string
FirstEnvName(str) ==
    str[(CHOOSE i \in EnvOpenings(str) : \A j \in EnvOpenings(str) : i <= j) + 1]

\* the string with {{env.name}} replaced by value wherever it stands
RECURSIVE Substituted(_, _, _)
Substituted(str, name, value) ==
    IF str = <<>> THEN <<>>
    ELSE IF Len(str) >= 3 /\ str[1] = "{{env." /\ str[2] = name /\ str[3] = "}}"
         THEN value \o Substituted(SubSeq(str, 4, Len(str)), name, value)
         ELSE <<str[1]>> \o Substituted(Tail(str), name, value)

\* C20: a string without a file placeholder whose first {{env.NAME}} names a
\* set variable (its value not a file placeholder either) loads, and comes out with each {{env.NAME}} replaced by the
\* value and every other token as it was: another {{env.OTHER}} stays in
\* place, whether OTHER is set or not.
C20_FirstEnvPlaceholderOnly ==
    (pc # "start" /\ FirstEnvIsSet(ConfiguredString)
     /\ "{{file." \notin Range(ConfiguredString)
     /\ "{{file." \notin Range(env[<<FirstEnvName(ConfiguredString)>>])) =>
        /\ pc = "loaded"
        /\ ResolvedString
              = Substituted(ConfiguredString, FirstEnvName(ConfiguredString),
                            env[<<FirstEnvName(ConfiguredString)>>])

\* FOO twice around OTHER, both set: OTHER stays
C20_Witness ==
    /\ pc = "loaded"
    /\ ConfiguredString = <<"{{env.", "FOO", "}}", "{{env.", "OTHER", "}}",
                            "{{env.", "FOO", "}}">>
    /\ S("OTHER") \in DOMAIN env
    /\ ResolvedString = <<"bar", "{{env.", "OTHER", "}}", "bar">>


\* ---- Secrets of every handler -------------------------------------------

\* the strings that stand directly as values of the handlers' config mappings
StringsOf(handlers) ==
    UNION {{handlers[i].config[k].v :
               k \in {k \in DOMAIN handlers[i].config : handlers[i].config[k].t = "string"}} :
           i \in 1..Len(handlers)}

\* those of the base list and of every override of the file being loaded
ConfiguredStrings ==
    StringsOf(LoadedConfig.handlers)
    \cup (IF LoadedConfig.overrides.some
          THEN UNION {StringsOf(LoadedConfig.overrides.v[o].handlers) :
                         o \in 1..Len(LoadedConfig.overrides.v)}
          ELSE {})

\* the places of the {{file. tokens of a string
FileOpenings(str) == {i \in 1..Len(str) : str[i] = "{{file."}

\* the first {{env. of the string opens {{env.NAME}} with NAME unset
FirstEnvIsUnset(str) ==
    /\ EnvOpenings(str) # {}
    /\ LET first == CHOOSE i \in EnvOpenings(str) : \A j \in EnvOpenings(str) : i <= j
       IN  /\ first + 2 <= Len(str)
           /\ str[first + 2] = "}}"
           /\ <<str[first + 1]>> \notin DOMAIN env

\* the first {{file. of the string opens {{file.PATH}} with no readable PATH
FirstFileIsUnreadable(str) ==
    /\ FileOpenings(str) # {}
    /\ LET first == CHOOSE i \in FileOpenings(str) : \A j \in FileOpenings(str) : i <= j
       IN  /\ first + 2 <= Len(str)
           /\ str[first + 2] = "}}"
           /\ ~(<<str[first + 1]>> \in DOMAIN fs /\ fs[<<str[first + 1]>>].readable)

\* C21: when a string value of any handler, of the base list or of any
\* override, selected for the project or not, has as its first placeholder
\* an {{env.NAME}} with NAME unset or a {{file.PATH}} that cannot be read,
\* the load fails as a whole: no configuration, the one warning line, exit 0.
C21_UnresolvableSecretFailsWholeLoad ==
    (pc # "start"
     /\ \E str \in ConfiguredStrings : FirstEnvIsUnset(str) \/ FirstFileIsUnreadable(str)) =>
        /\ pc = "exited"
        /\ config = None
        /\ Len(stdout) = 1 /\ IsDegrade(stdout[1])
        /\ exit_code = Some(0)

\* the unset FOO stands in the handler of an override for another project,
\* beside a base handler with nothing to resolve
C21_Witness ==
    /\ pc = "exited"
    /\ S("CLAUDE_PROJECT_DIR") \notin DOMAIN env
    /\ S("FOO") \notin DOMAIN env
    /\ LoadedConfig.overrides.some
    /\ StringsOf(LoadedConfig.handlers) = {<<"x_">>}
    /\ StringsOf(LoadedConfig.overrides.v[1].handlers) = {<<"{{env.", "FOO", "}}">>}

\* ---- Strings inside object and array config values -----------------------

HasNested == K("payload") \in DOMAIN LoadedConfig.handlers[1].config
NestedConfigured == LoadedConfig.handlers[1].config[K("payload")].v[K("text")].v
NestedInObject == config.v.handlers[1].config[K("payload")].v[K("text")].v
NestedInArray == config.v.handlers[1].config[K("headers")].v[1].v

\* C23: a string inside an object value or an array value of a handler's
\* config mapping is substituted like a string that stands directly in the
\* mapping: with its first {{env.NAME}} set and no file placeholder, it comes
\* out of the load with each {{env.NAME}} replaced by the value.
C23_NestedStringsAreSubstituted ==
    (pc = "loaded" /\ HasNested /\ FirstEnvIsSet(NestedConfigured)
     /\ "{{file." \notin Range(NestedConfigured)
     /\ "{{file." \notin Range(env[<<FirstEnvName(NestedConfigured)>>])) =>
        /\ NestedInObject
              = Substituted(NestedConfigured, FirstEnvName(NestedConfigured),
                            env[<<FirstEnvName(NestedConfigured)>>])
        /\ NestedInArray = NestedInObject

\* ---- Order of the two substitutions ---------------------------------------

\* whether the first {{file. of the string opens {{file.PATH}} with PATH readable
FirstFileIsReadable(str) ==
    /\ FileOpenings(str) # {}
    /\ LET first == CHOOSE i \in FileOpenings(str) : \A j \in FileOpenings(str) : i <= j
       IN  /\ first + 2 <= Len(str)
           /\ str[first + 2] = "}}"
           /\ <<str[first + 1]>> \in DOMAIN fs
           /\ fs[<<str[first + 1]>>].readable

\* the path in the first file placeholder of such a string
FirstFilePath(str) ==
    str[(CHOOSE i \in FileOpenings(str) : \A j \in FileOpenings(str) : i <= j) + 1]

\* the string with {{file.path}} replaced by content wherever it stands
RECURSIVE SubstitutedFile(_, _, _)
SubstitutedFile(str, path, content) ==
    IF str = <<>> THEN <<>>
    ELSE IF Len(str) >= 3 /\ str[1] = "{{file." /\ str[2] = path /\ str[3] = "}}"
         THEN content \o SubstitutedFile(SubSeq(str, 4, Len(str)), path, content)
         ELSE <<str[1]>> \o SubstitutedFile(Tail(str), path, content)

\* the string after its {{env.NAME}} has been replaced by the variable's value
AfterEnv(str) == Substituted(str, FirstEnvName(str), env[<<FirstEnvName(str)>>])

\* C29: the file scan runs on the result of the environment substitution.
\* A string with no file placeholder of its own, whose variable's value is a
\* placeholder of a readable file, comes out with the file's trimmed content
\* in the variable's place; a string with no environment placeholder of its
\* own, whose readable file holds an environment placeholder, comes out with
\* that placeholder in the file's place, unresolved, the variable set or not.
C29_FileScanFollowsEnvSubstitution ==
    /\ (pc # "start" /\ FirstEnvIsSet(ConfiguredString)
        /\ "{{file." \notin Range(ConfiguredString)
        /\ FirstFileIsReadable(AfterEnv(ConfiguredString))) =>
           /\ pc = "loaded"
           /\ ResolvedString
                 = SubstitutedFile(AfterEnv(ConfiguredString),
                                   FirstFilePath(AfterEnv(ConfiguredString)),
                                   trim(fs[<<FirstFilePath(AfterEnv(ConfiguredString))>>].text))
           /\ "{{file." \notin Range(ResolvedString)
    /\ (pc # "start" /\ "{{env." \notin Range(ConfiguredString)
        /\ FirstFileIsReadable(ConfiguredString)
        /\ "{{env." \in Range(fs[<<FirstFilePath(ConfiguredString)>>].text)) =>
           /\ pc = "loaded"
           /\ ResolvedString
                 = SubstitutedFile(ConfiguredString, FirstFilePath(ConfiguredString),
                                   trim(fs[<<FirstFilePath(ConfiguredString)>>].text))
           /\ "{{env." \in Range(ResolvedString)

\* FOO holds the placeholder of the file p, and p holds the placeholder of
\* OTHER, which is set: the file is read, OTHER is left as it stands
C29_Witness ==
    /\ pc = "loaded"
    /\ S("OTHER") \in DOMAIN env
    /\ ConfiguredString = <<"x_", "{{env.", "FOO", "}}">>
    /\ ResolvedString = <<"x_", "{{env.", "OTHER", "}}">>

\* ---- Resolution comes first ------------------------------------------------

\* main is past the load and the override step
Resolved == pc \notin {"start", "loaded"} /\ config.some

\* the override step replaces the handler list
OverrideApplies ==
    /\ S("CLAUDE_PROJECT_DIR") \in DOMAIN env
    /\ project_config_path(ProjectPath) \notin DOMAIN fs
    /\ MatchingOverrides # {}

\* the handlers of the last override whose pattern matches the project path
SelectedHandlers ==
    LoadedConfig.overrides.v[CHOOSE i \in MatchingOverrides :
                                \A j \in MatchingOverrides : j <= i].handlers

\* every string of the configuration in use, overrides included
ActiveStrings ==
    StringsOf(config.v.handlers)
    \cup (IF config.v.overrides.some
          THEN UNION {StringsOf(config.v.overrides.v[o].handlers) :
                         o \in 1..Len(config.v.overrides.v)}
          ELSE {})

\* C22: until the secrets are substituted and the override step is over, no
\* event is read, no rule is evaluated and no handler is invoked; from then
\* on no configured string holds a placeholder, the handler list is the
\* selected override's list when an override applies and the base list
\* otherwise, every rule evaluated and every handler invoked is one of that
\* list, and the configuration is never changed again.
C22_ResolutionPrecedesDispatch ==
    /\ [](/\ pc \in {"start", "loaded"} =>
               (event = None /\ hook = None /\ evaluated = <<>> /\ futs = <<>>
                /\ outcomes = None)
          /\ Resolved =>
               /\ \A str \in ActiveStrings : "{{env." \notin Range(str)
               /\ IF OverrideApplies
                  THEN config.v.handlers = SelectedHandlers
                  ELSE /\ Len(config.v.handlers) = Len(LoadedConfig.handlers)
                       /\ \A i \in 1..Len(config.v.handlers) :
                             config.v.handlers[i].name = LoadedConfig.handlers[i].name
               /\ \A i \in Range(evaluated) : i \in 1..Len(config.v.handlers)
               /\ \A f \in 1..Len(futs) :
                     /\ futs[f].idx \in Range(evaluated)
                     /\ futs[f].name = config.v.handlers[futs[f].idx].name
                     /\ futs[f].handler_type = config.v.handlers[futs[f].idx].handler_type
                     /\ futs[f].config = config.v.handlers[futs[f].idx].config)
    /\ [][pc \notin {"start", "loaded"} => config' = config]_vars

\* two base handlers and the override of /work/*, in the project
\* /work/special: the override's one handler ran, no base handler did
C22_Witness ==
    /\ pc = "exited"
    /\ config.some
    /\ OverrideApplies
    /\ Len(LoadedConfig.handlers) = 2
    /\ Len(futs) = 1
    /\ futs[1].name = "work"
    /\ futs[1].st = "done"
    /\ outcomes.some

\* ---- Outcomes of a dispatch -------------------------------------------------

\* C24: every outcome process_event returns, and every output of a future, is
\* Success or Error, never Interactive; so the run of a PreToolUse event that
\* reached the dispatch ends with the one response line whose
\* permissionDecision is "allow", with no reason field, and exit code 0.
C24_DispatchNeverDecides ==
    /\ \A f \in 1..Len(futs) :
          futs[f].out.some => futs[f].out.v.kind \in {"Success", "Error"}
    /\ outcomes.some =>
          \A k \in 1..Len(outcomes.v) : outcomes.v[k].kind \in {"Success", "Error"}
    /\ (pc = "exited" /\ hook.some /\ hook.v.kind = "PreToolUse" /\ outcomes.some) =>
          /\ Len(stdout) = 1
          /\ stdout[1].json
          /\ JsonEq(Response, AllowResponse)
          /\ DOMAIN Response.v[K("hookSpecificOutput")].v
                = {K("hookEventName"), K("permissionDecision")}
          /\ exit_code = Some(0)

\* a PreToolUse event whose email handler failed: the answer is still allow
C24_Witness ==
    /\ pc = "exited"
    /\ hook.some
    /\ hook.v.kind = "PreToolUse"
    /\ outcomes.some
    /\ \E k \in 1..Len(outcomes.v) : outcomes.v[k].kind = "Error"
    /\ \E k \in 1..Len(outcomes.v) : outcomes.v[k].kind = "Success"
    /\ JsonEq(Response, AllowResponse)

\* ---- A blank line -----------------------------------------------------------

\* the line read holds no character, or whitespace only
BlankLine == stdin.ok /\ \A i \in 1..Len(stdin.line.text) : stdin.line.text[i] \in {" ", "\n"}

\* C30: when the line read is empty or holds whitespace only, no event is
\* made of it, no category is determined, no rule is evaluated and no handler
\* is invoked, and the run ends with exit code 0 and the one line {}: the
\* empty object, not the continue-with-warning object.
C30_BlankLinePrintsEmptyObject ==
    BlankLine =>
        /\ event = None
        /\ hook = None
        /\ evaluated = <<>>
        /\ futs = <<>>
        /\ outcomes = None
        /\ (pc = "exited" /\ config.some) =>
              /\ Len(stdout) = 1
              /\ stdout[1].json
              /\ stdout[1].v.t = "object"
              /\ DOMAIN stdout[1].v.v = {}
              /\ ~IsDegrade(stdout[1])
              /\ exit_code = Some(0)

\* a line of a space and a newline, under a configuration with a handler
C30_Witness ==
    /\ pc = "exited"
    /\ config.some
    /\ config.v.handlers # <<>>
    /\ stdin.ok
    /\ stdin.line.text = <<" ", "\n">>
    /\ stdout = <<JsonLine(EmptyObject)>>

\* ---- Overrides and the configuration loaded -------------------------------

\* C28: with CLAUDE_PROJECT_DIR set, the overrides are applied if and only if
\* the configuration loaded is not the project's own
\* $CLAUDE_PROJECT_DIR/.claude/boopifier.json: a configuration from anywhere
\* else with an override matching the project runs that override's handlers,
\* and the project's own configuration keeps its base list.
C28_OverridesIffNotProjectConfig ==
    (Resolved /\ S("CLAUDE_PROJECT_DIR") \in DOMAIN env /\ MatchingOverrides # {}) =>
        IF config_path # project_config_path(ProjectPath)
        THEN config.v.handlers = SelectedHandlers
        ELSE Len(config.v.handlers) = Len(LoadedConfig.handlers)

\* ---- Simple rules that hold all, any, not -----------------------------------

ReservedKeys == {K("all"), K("any"), K("not")}

\* the map cut down to the keys in `keys`
Restricted(map, keys) == [key \in DOMAIN map \cap keys |-> map[key]]

\* the reserved keys of the map whose value has the type its component takes:
\* an array for all and any, an object for not
WellTypedKeys(map) ==
    {key \in DOMAIN map \cap {K("all"), K("any")} : map[key].t = "array"}
    \cup {key \in DOMAIN map \cap {K("not")} : map[key].t = "object"}

\* C25: in a rule parsed as Simple that holds a reserved key beside other
\* keys, the other keys constrain nothing: the handler is selected exactly
\* when the Complex rule made of the reserved keys alone selects it. The
\* any-rule for Notification or Stop with "message": "bye" beside it selects
\* the handler for the Notification event, whose message is not "bye".
C25_OtherKeysAreIgnored ==
    (Tried /\ TheRule.k = "Simple"
     /\ DOMAIN TheRule.rules \ ReservedKeys # {}
     /\ IsUntaggedComplex(Restricted(TheRule.rules, ReservedKeys))) =>
        /\ Fires <=> matches_complex(event.v,
                                     AsComplex(Restricted(TheRule.rules, ReservedKeys)).all,
                                     AsComplex(Restricted(TheRule.rules, ReservedKeys)).any,
                                     AsComplex(Restricted(TheRule.rules, ReservedKeys)).not,
                                     TheMode)
        /\ (TheRule.rules = NotificationOrStop @@ OtherField
            /\ JsonEq(JObj(event.v.data), NotificationEvent)) => Fires

\* the any-rule with "message": "bye" beside it, on the Notification event
C25_Witness ==
    /\ Tried
    /\ TheRule.k = "Simple"
    /\ TheRule.rules = NotificationOrStop @@ OtherField
    /\ JsonEq(JObj(event.v.data), NotificationEvent)
    /\ Fires

\* C26: a rule whose all is present and empty, its any and not absent,
\* selects the handler for every event: the Complex rule with the empty
\* list, and the rule parsed as Simple whose all array holds no object, so
\* that nothing is left of it once the members that are no objects are dropped.
C26_EmptyAllMatchesEveryEvent ==
    (Tried
     /\ \/ /\ TheRule.k = "Complex"
           /\ TheRule.all = Some(<<>>) /\ ~TheRule.any.some /\ ~TheRule.not.some
        \/ /\ TheRule.k = "Simple"
           /\ DOMAIN TheRule.rules \cap ReservedKeys = {K("all")}
           /\ TheRule.rules[K("all")].t = "array"
           /\ \A i \in 1..Len(TheRule.rules[K("all")].v) :
                 TheRule.rules[K("all")].v[i].t # "object") => Fires

\* the rule {"all": ["x", 5]}: both members are dropped, the handler is selected
C26_Witness ==
    /\ Tried
    /\ TheRule.k = "Simple"
    /\ DOMAIN TheRule.rules = {K("all")}
    /\ TheRule.rules[K("all")].t = "array"
    /\ Len(TheRule.rules[K("all")].v) = 2
    /\ \A i \in 1..2 : TheRule.rules[K("all")].v[i].t # "object"
    /\ Fires

\* C27: in a rule parsed as Simple, a reserved key whose value has the wrong
\* type (all or any not an array, not not an object) counts as absent. When
\* every reserved key present is of the wrong type the handler is selected
\* for no event; otherwise it is selected exactly when the Complex rule made
\* of the well-typed keys selects it. Either way the rule is evaluated to a
\* boolean and the dispatch goes on.
C27_WrongTypedComponentIsAbsent ==
    (pc # "dispatch" /\ TheRule.k = "Simple"
     /\ DOMAIN TheRule.rules \cap ReservedKeys # {}
     /\ WellTypedKeys(TheRule.rules) # DOMAIN TheRule.rules \cap ReservedKeys) =>
        /\ Tried
        /\ WellTypedKeys(TheRule.rules) = {} => ~Fires
        /\ (WellTypedKeys(TheRule.rules) # {}
            /\ IsUntaggedComplex(Restricted(TheRule.rules, WellTypedKeys(TheRule.rules)))) =>
              (Fires <=>
                 matches_complex(
                     event.v,
                     AsComplex(Restricted(TheRule.rules, WellTypedKeys(TheRule.rules))).all,
                     AsComplex(Restricted(TheRule.rules, WellTypedKeys(TheRule.rules))).any,
                     AsComplex(Restricted(TheRule.rules, WellTypedKeys(TheRule.rules))).not,
                     TheMode))

\* the rule {"any": "x", "not": {"hook_event_name": "Stop"}} on the
\* Notification event: any counts as absent, not holds, the handler is selected
C27_Witness ==
    /\ Tried
    /\ TheRule.k = "Simple"
    /\ DOMAIN TheRule.rules = {K("any"), K("not")}
    /\ TheRule.rules[K("any")].t = "string"
    /\ TheRule.rules[K("not")].t = "object"
    /\ JsonEq(JObj(event.v.data), NotificationEvent)
    /\ Fires

====
